---- MODULE Spec2Model ----
(***************************************************************************)
(* State-machine model of the RAG backend core: the per-provider circuit   *)
(* breaker of LlmService, the training saga of TrainingService and the     *)
(* training operations of RagService, and the in-memory caches of          *)
(* RagService and RetrievalService.                                        *)
(***************************************************************************)
EXTENDS Integers, Sequences, FiniteSets, TLC

(***************************************************************************)
(* Program constants                                                       *)
(***************************************************************************)
FAILURE_THRESHOLD == 5
RECOVERY_TIMEOUT == 30000

Services == {"groq", "huggingface"}

(***************************************************************************)
(* Bounds of the model                                                     *)
(***************************************************************************)
\* Date.now() at construction (milliseconds)
StartTime == 1000000
\* number of clock advances in one behaviour
MaxTicks == 2
\* provider calls let through in one behaviour (both providers together)
MaxCalls == 7
\* provider calls of one provider that may be awaiting their result at once
MaxInflight == 2
\* single training calls (trainWithData) in one behaviour
MaxTrainCalls == 2
\* documents handed to one trainBatch call
MaxDocs == 7
\* failures the collaborators (providers, stores) produce in one behaviour
MaxFaults == 3
\* failures the collaborators produce while a trainBatch call runs
MaxBatchFaults == 2
\* clock advances in one behaviour of the cache specifications
MaxCacheTicks == 3
\* chat / chatStream turns that may be in progress at once
MaxTurns == 2
\* cache entries already present when the cache-size behaviours begin
Prefill == 999
\* cleanupCache timers that may be waiting at once
MaxPendingCleanups == 2
\* chat, chatStream and multiQueryRetrieval calls in one behaviour
MaxLookups == 3
\* calls that bring a new cache key in one cache-size behaviour
MaxNewEntries == 2
\* documents handed to one dedup/rerank call
MaxRerankDocs == 3
\* characters of the text the completion provider returns for variations
MaxAnswerLen == 3
\* chat and chatStream calls in one behaviour of the chat specification
MaxChatCalls == 2
\* chat sessions in one behaviour
MaxSessions == 2
\* chunks one chatStream call yields before its stream ends or fails
MaxChunks == 1
\* clock advances in one behaviour of the chat specification
MaxChatTicks == 1

VARIABLES
    now,              \* Date.now()
    ticks,            \* clock advances so far
    circuitBreakers,  \* LlmService.circuitBreakers: service -> CircuitBreakerState
    calls,            \* per service, per slot: "idle", "inflight" or "probe"
    admitted,         \* provider invocations so far
    consecFailures,   \* per service: failures recorded since the last recorded success
    lastEvent,        \* per service: the most recent event on the circuit
    vectorStore,      \* ids held by the vector store (Pinecone)
    keywordStore,     \* ids held by the keyword index (Elasticsearch)
    relationalStore,  \* ids held by the relational store (PostgreSQL documents)
    tasks,            \* per generated document id: the training call that owns it
    faults,           \* failures produced so far
    writeCalls,       \* per store: ids for which a write was issued
    writeOk,          \* per store: ids whose write returned normally
    deleteCalls,      \* per store, per id: compensating deletes issued
    hasDataCache,     \* TrainingService.hasDataCache
    batch,            \* the trainBatch call in progress
    responseCache,    \* RagService.responseCache, in insertion order
    queryCache,       \* RagService.queryCache, in insertion order
    retrievalCache,   \* RetrievalService.queryCache, in insertion order
    turns,            \* chat / chatStream turns in progress
    retrieval,        \* the multiQueryRetrieval call in progress
    pendingCleanups,  \* cleanupCache timers set and not yet run
    reads,            \* the latest lookup that used an entry and the latest that
                      \* found one and did not use it: cache and age of the entry
    begun,            \* chat, chatStream and multiQueryRetrieval calls so far
    rerank,           \* one dedup/rerank call: its input, its output, the output of
                      \* a second pass over that output
    hybrid,           \* the RetrievalService.hybridSearch call in progress
    variation,        \* the generateQueryVariations call in progress
    sessions,         \* RagService.sessions: session id -> ChatSession, if held
    redis,            \* the session:<id> keys of the shared store
    running,          \* per turn in progress: its number in call order
    trace,            \* per chat / chatStream call, in call order: what it was
                      \* given, the collaborators it called, how it ended
    chatHistory,      \* the rows of the chat history table, in the order saved
    peer,             \* the sessions map of a second backend instance
    lastOp,           \* the last clearSession / getSessionInfo / deleteSession
                      \* call and what it returned
    ragHasData,       \* RagService.hasDataCache
    globalInstructions, \* RagService.globalInstructions
    lastChange,       \* the cache keys present, and the calls made, when the
                      \* instructions or the training data last changed
    tokens,           \* the access tokens issued: expiry, whether revoked
    blacklist,        \* the blacklist:token: keys of the shared store
    lastRequest,      \* the last request to a protected route and its outcome
    compose,          \* a session history and the messages the completion
                      \* provider was last given for a turn on it
    conversation      \* one Conversation row, the chat history rows of the
                      \* conversation and the sendMessage calls on it

cbVars == <<circuitBreakers, calls, admitted, consecFailures, lastEvent>>
storeVars == <<vectorStore, keywordStore, relationalStore>>
sagaLogVars == <<writeCalls, writeOk, deleteCalls>>
trainVars == <<vectorStore, keywordStore, relationalStore, tasks, faults,
               writeCalls, writeOk, deleteCalls, hasDataCache, batch>>
cacheVars == <<responseCache, queryCache, retrievalCache, turns, retrieval,
               pendingCleanups, reads, begun>>
clockVars == <<now, ticks>>
chatVars == <<sessions, redis, running, trace, chatHistory>>
authVars == <<tokens, blacklist, lastRequest>>
lateVars == <<compose, conversation>>
ragVars == <<peer, lastOp, ragHasData, globalInstructions, lastChange, authVars, lateVars>>
tailVars == <<rerank, hybrid, variation, chatVars, ragVars>>

Slots == 1..MaxInflight

(***************************************************************************)
(* LlmService: circuit breaker                                             *)
(***************************************************************************)
InitialBreakers ==
    [s \in Services |-> [failures |-> 0, lastFailure |-> 0, isOpen |-> FALSE]]

\* isCircuitOpen: the value returned at time t
isCircuitOpen(cb, service, t) ==
    IF cb[service].isOpen
    THEN IF t - cb[service].lastFailure > RECOVERY_TIMEOUT THEN FALSE ELSE TRUE
    ELSE FALSE

\* a check that takes a rejected call for a failure
isCircuitOpenEffectCounting(cb, service, t) ==
    IF cb[service].isOpen /\ t - cb[service].lastFailure > RECOVERY_TIMEOUT
    THEN [cb EXCEPT ![service].isOpen = FALSE, ![service].failures = 0]
    ELSE IF cb[service].isOpen
         THEN [cb EXCEPT ![service].failures = @ + 1, ![service].lastFailure = t]
         ELSE cb

\* isCircuitOpen: the breaker map it leaves behind (half-open transition)
isCircuitOpenEffect(cb, service, t) ==
    IF cb[service].isOpen /\ t - cb[service].lastFailure > RECOVERY_TIMEOUT
    THEN [cb EXCEPT ![service].isOpen = FALSE, ![service].failures = 0]
    ELSE cb

recordFailureStrict(cb, service, t) ==
    LET n == cb[service].failures + 1
    IN  [cb EXCEPT ![service].failures = n,
                   ![service].lastFailure = t,
                   ![service].isOpen = IF n > FAILURE_THRESHOLD THEN TRUE ELSE @]

recordFailure(cb, service, t) ==
    LET n == cb[service].failures + 1
    IN  [cb EXCEPT ![service].failures = n,
                   ![service].lastFailure = t,
                   ![service].isOpen = IF n >= FAILURE_THRESHOLD THEN TRUE ELSE @]

recordSuccessKeepsOpen(cb, service) ==
    [cb EXCEPT ![service].failures = 0]

recordSuccess(cb, service) ==
    [cb EXCEPT ![service].failures = 0, ![service].isOpen = FALSE]

\* The provider's answers: the call returns, throws, or (feature extraction
\* only) returns something that is not an array.
Outcomes(service) ==
    IF service = "huggingface" THEN {"ok", "throw", "malformed"} ELSE {"ok", "throw"}

\* generateEmbedding / generateResponse / generateStreamingResponse up to the
\* provider call: the circuit check, then either the fail-fast throw or the
\* provider invocation.
CallRejected(service) ==
    /\ isCircuitOpen(circuitBreakers, service, now)
    /\ lastEvent' = [lastEvent EXCEPT ![service] = "reject"]
    /\ circuitBreakers' = isCircuitOpenEffect(circuitBreakers, service, now)
    /\ UNCHANGED <<calls, admitted, consecFailures>>

CallAdmitted(service, slot) ==
    /\ ~isCircuitOpen(circuitBreakers, service, now)
    /\ admitted < MaxCalls
    /\ calls[service][slot] = "idle"
    /\ LET probe == circuitBreakers[service].isOpen
       IN  /\ calls' = [calls EXCEPT ![service][slot] =
                            IF probe THEN "probe" ELSE "inflight"]
           /\ lastEvent' = [lastEvent EXCEPT ![service] =
                            IF probe THEN "probe" ELSE "admit"]
    /\ circuitBreakers' = isCircuitOpenEffect(circuitBreakers, service, now)
    /\ admitted' = admitted + 1
    /\ UNCHANGED consecFailures

\* The provider call settles: recordSuccess, recordFailure, or (malformed
\* embedding) recordSuccess followed by the throw and recordFailure.
CallReturn(service, slot, outcome) ==
    /\ calls[service][slot] # "idle"
    /\ outcome \in Outcomes(service)
    /\ LET probe == calls[service][slot] = "probe"
       IN  CASE outcome = "ok" ->
                  /\ circuitBreakers' = recordSuccess(circuitBreakers, service)
                  /\ consecFailures' = [consecFailures EXCEPT ![service] = 0]
                  /\ lastEvent' = [lastEvent EXCEPT ![service] =
                                     IF probe THEN "probe_success" ELSE "success"]
             [] outcome = "throw" ->
                  /\ circuitBreakers' = recordFailure(circuitBreakers, service, now)
                  /\ consecFailures' = [consecFailures EXCEPT ![service] = @ + 1]
                  /\ lastEvent' = [lastEvent EXCEPT ![service] =
                                     IF probe THEN "probe_failure" ELSE "failure"]
             [] outcome = "malformed" ->
                  /\ circuitBreakers' =
                        recordFailure(recordSuccess(circuitBreakers, service), service, now)
                  /\ consecFailures' = [consecFailures EXCEPT ![service] = 1]
                  /\ lastEvent' = [lastEvent EXCEPT ![service] =
                                     IF probe THEN "probe_failure" ELSE "failure"]
    /\ calls' = [calls EXCEPT ![service][slot] = "idle"]
    /\ UNCHANGED admitted

(***************************************************************************)
(* TrainingService.trainWithData: saga over the three stores               *)
(***************************************************************************)
Stores == {"vector", "keyword", "relational"}
DocIds == 1..MaxDocs
NULL == "null"

IdleTask ==
    [kind |-> "none", pc |-> "idle",
     ops |-> [pinecone |-> FALSE, elastic |-> FALSE, postgres |-> FALSE],
     error |-> "none", raisedErr |-> "none",
     w |-> [s \in Stores |-> "idle"],
     rollbackFailed |-> {}]

\* const docId = uuidv4(); const ops = {...}; generateEmbedding is awaited
startTraining(task) == [task EXCEPT !.kind = "training", !.pc = "embedding"]

\* the catch block's entry: which compensation, if any, is issued first
catchBlockNoRollback(task, err) ==
    [task EXCEPT !.error = err, !.pc = "raised", !.raisedErr = err]

catchBlock(task, err) ==
    IF task.ops.pinecone
    THEN [task EXCEPT !.error = err, !.pc = "rollbackVector"]
    ELSE IF task.ops.elastic
         THEN [task EXCEPT !.error = err, !.pc = "rollbackKeyword"]
         ELSE [task EXCEPT !.error = err, !.pc = "raised", !.raisedErr = err]

\* after the vector-store delete settled: .catch logs a failure, then the
\* keyword-index compensation, then `throw error`
afterVectorRollbackEscalates(task, ok) ==
    IF ~ok
    THEN [task EXCEPT !.rollbackFailed = @ \cup {"vector"},
                      !.pc = "raised", !.raisedErr = "rollback"]
    ELSE IF task.ops.elastic
         THEN [task EXCEPT !.pc = "rollbackKeyword"]
         ELSE [task EXCEPT !.pc = "raised", !.raisedErr = task.error]

afterVectorRollback(task, ok) ==
    LET t == IF ok THEN task ELSE [task EXCEPT !.rollbackFailed = @ \cup {"vector"}]
    IN  IF t.ops.elastic
        THEN [t EXCEPT !.pc = "rollbackKeyword"]
        ELSE [t EXCEPT !.pc = "raised", !.raisedErr = t.error]

afterKeywordRollback(task, ok) ==
    LET t == IF ok THEN task ELSE [task EXCEPT !.rollbackFailed = @ \cup {"keyword"}]
    IN  [t EXCEPT !.pc = "raised", !.raisedErr = t.error]

\* the collaborator's answer to one awaited call; a failure uses the budget
FaultBudget == IF batch.kind = "none" THEN MaxFaults ELSE MaxBatchFaults

Answer(ok) ==
    /\ ok \in BOOLEAN
    /\ IF ok THEN faults' = faults ELSE faults < FaultBudget /\ faults' = faults + 1

IssueWrite(log, store, id) == [log EXCEPT ![store] = @ \cup {id}]
IssueDelete(log, store, id) == [log EXCEPT ![store][id] = @ + 1]

\* deletes issued when a task moves from `before` to `after`
DeletesOnEntry(before, after, id) ==
    IF after.pc = before.pc THEN deleteCalls
    ELSE IF after.pc = "rollbackVector" THEN IssueDelete(deleteCalls, "vector", id)
    ELSE IF after.pc = "rollbackKeyword" THEN IssueDelete(deleteCalls, "keyword", id)
    ELSE deleteCalls

\* await this.llmService.generateEmbedding(content)
TrainEmbed(id, ok) ==
    /\ tasks[id].kind = "training" /\ tasks[id].pc = "embedding"
    /\ Answer(ok)
    /\ LET t == IF ok THEN [tasks[id] EXCEPT !.pc = "upsert"]
                      ELSE catchBlock(tasks[id], "embed")
       IN  /\ tasks' = [tasks EXCEPT ![id] = t]
           /\ writeCalls' = IF ok THEN IssueWrite(writeCalls, "vector", id) ELSE writeCalls
           /\ deleteCalls' = DeletesOnEntry(tasks[id], t, id)
    /\ UNCHANGED <<storeVars, writeOk, hasDataCache, batch>>

\* await this.vectorDbService.upsertDocument(...); ops.pinecone = true
TrainUpsert(id, ok) ==
    /\ tasks[id].kind = "training" /\ tasks[id].pc = "upsert"
    /\ Answer(ok)
    /\ LET t == IF ok THEN [tasks[id] EXCEPT !.pc = "index", !.ops.pinecone = TRUE]
                      ELSE catchBlock(tasks[id], "vector")
       IN  /\ tasks' = [tasks EXCEPT ![id] = t]
           /\ vectorStore' = IF ok THEN vectorStore \cup {id} ELSE vectorStore
           /\ writeOk' = IF ok THEN IssueWrite(writeOk, "vector", id) ELSE writeOk
           /\ writeCalls' = IF ok THEN IssueWrite(writeCalls, "keyword", id) ELSE writeCalls
           /\ deleteCalls' = DeletesOnEntry(tasks[id], t, id)
    /\ UNCHANGED <<keywordStore, relationalStore, hasDataCache, batch>>

\* await this.elasticsearchService.indexDocument(...); ops.elastic = true
TrainIndex(id, ok) ==
    /\ tasks[id].kind = "training" /\ tasks[id].pc = "index"
    /\ Answer(ok)
    /\ LET t == IF ok THEN [tasks[id] EXCEPT !.pc = "save", !.ops.elastic = TRUE]
                      ELSE catchBlock(tasks[id], "keyword")
       IN  /\ tasks' = [tasks EXCEPT ![id] = t]
           /\ keywordStore' = IF ok THEN keywordStore \cup {id} ELSE keywordStore
           /\ writeOk' = IF ok THEN IssueWrite(writeOk, "keyword", id) ELSE writeOk
           /\ writeCalls' = IF ok THEN IssueWrite(writeCalls, "relational", id) ELSE writeCalls
           /\ deleteCalls' = DeletesOnEntry(tasks[id], t, id)
    /\ UNCHANGED <<vectorStore, relationalStore, hasDataCache, batch>>

\* await this.documentRepository.save(...); ops.postgres = true;
\* this.hasDataCache = null
TrainSave(id, ok) ==
    /\ tasks[id].kind = "training" /\ tasks[id].pc = "save"
    /\ Answer(ok)
    /\ LET t == IF ok THEN [tasks[id] EXCEPT !.pc = "done", !.ops.postgres = TRUE]
                      ELSE catchBlock(tasks[id], "relational")
       IN  /\ tasks' = [tasks EXCEPT ![id] = t]
           /\ relationalStore' = IF ok THEN relationalStore \cup {id} ELSE relationalStore
           /\ writeOk' = IF ok THEN IssueWrite(writeOk, "relational", id) ELSE writeOk
           /\ hasDataCache' = IF ok THEN NULL ELSE hasDataCache
           /\ deleteCalls' = DeletesOnEntry(tasks[id], t, id)
    /\ UNCHANGED <<vectorStore, keywordStore, writeCalls, batch>>

\* await this.vectorDbService.deleteDocument(docId).catch(log)
TrainRollbackVector(id, ok) ==
    /\ tasks[id].kind = "training" /\ tasks[id].pc = "rollbackVector"
    /\ Answer(ok)
    /\ LET t == afterVectorRollback(tasks[id], ok)
       IN  /\ tasks' = [tasks EXCEPT ![id] = t]
           /\ deleteCalls' = DeletesOnEntry(tasks[id], t, id)
    /\ vectorStore' = IF ok THEN vectorStore \ {id} ELSE vectorStore
    /\ UNCHANGED <<keywordStore, relationalStore, writeCalls, writeOk, hasDataCache, batch>>

\* await this.elasticsearchService.deleteDocument(docId).catch(log); throw error
TrainRollbackKeyword(id, ok) ==
    /\ tasks[id].kind = "training" /\ tasks[id].pc = "rollbackKeyword"
    /\ Answer(ok)
    /\ tasks' = [tasks EXCEPT ![id] = afterKeywordRollback(tasks[id], ok)]
    /\ keywordStore' = IF ok THEN keywordStore \ {id} ELSE keywordStore
    /\ UNCHANGED <<vectorStore, relationalStore, sagaLogVars, hasDataCache, batch>>

(***************************************************************************)
(* RagService.trainWithData: the operation behind POST /rag/train          *)
(***************************************************************************)
startRagTraining(task) == [task EXCEPT !.kind = "rag", !.pc = "embedding"]

\* a training call enters: the controller's trainSingle calls
\* ragService.trainWithData; TrainingService.trainWithData is the saga
TrainStart(id, kind) ==
    /\ batch.kind = "none"
    /\ id \in 1..MaxTrainCalls
    /\ tasks[id].pc = "idle"
    /\ \A j \in 1..(id - 1) : tasks[j].pc # "idle"
    /\ tasks' = [tasks EXCEPT ![id] =
                    IF kind = "training" THEN startTraining(@) ELSE startRagTraining(@)]
    /\ UNCHANGED <<storeVars, faults, sagaLogVars, hasDataCache, batch>>

\* await generateEmbedding, then the three writes are issued together
RagEmbed(id, ok) ==
    /\ tasks[id].kind = "rag" /\ tasks[id].pc = "embedding"
    /\ Answer(ok)
    /\ tasks' = [tasks EXCEPT ![id] =
                    IF ok THEN [@ EXCEPT !.pc = "writes", !.w = [s \in Stores |-> "pending"]]
                          ELSE [@ EXCEPT !.pc = "raised", !.error = "embed",
                                         !.raisedErr = "embed"]]
    /\ writeCalls' = IF ok THEN [s \in Stores |-> writeCalls[s] \cup {id}] ELSE writeCalls
    /\ UNCHANGED <<storeVars, writeOk, deleteCalls, hasDataCache, batch>>

\* one of the three writes under Promise.all settles; the first rejection
\* rejects the Promise.all, the catch block logs and rethrows
RagWrite(id, store, ok) ==
    /\ tasks[id].kind = "rag" /\ tasks[id].w[store] = "pending"
    /\ Answer(ok)
    /\ LET t == tasks[id]
           allOk == \A s \in Stores \ {store} : t.w[s] = "ok"
       IN  tasks' = [tasks EXCEPT ![id] =
                IF ok
                THEN [t EXCEPT !.w[store] = "ok",
                               !.pc = IF t.pc = "writes" /\ allOk THEN "done" ELSE @]
                ELSE IF t.pc = "writes"
                     THEN [t EXCEPT !.w[store] = "failed", !.pc = "raised",
                                    !.error = store, !.raisedErr = store]
                     ELSE [t EXCEPT !.w[store] = "failed"]]
    /\ vectorStore' = IF ok /\ store = "vector" THEN vectorStore \cup {id} ELSE vectorStore
    /\ keywordStore' = IF ok /\ store = "keyword" THEN keywordStore \cup {id} ELSE keywordStore
    /\ relationalStore' =
          IF ok /\ store = "relational" THEN relationalStore \cup {id} ELSE relationalStore
    /\ writeOk' = IF ok THEN IssueWrite(writeOk, store, id) ELSE writeOk
    /\ UNCHANGED <<writeCalls, deleteCalls, hasDataCache, batch>>


(***************************************************************************)
(* trainBatch: TrainingService.trainBatch and RagService.trainBatch        *)
(***************************************************************************)
batchSize == 5

NoBatch ==
    [kind |-> "none", n |-> 0, i |-> 0, success |-> 0, failed |-> 0,
     result |-> "none", counts |-> FALSE, bw |-> [s \in Stores |-> "idle"]]

Min(a, b) == IF a < b THEN a ELSE b

\* documents.slice(i, i + batchSize) as document numbers
Group(i, n) == (i + 1)..Min(i + batchSize, n)

\* a group counted as soon as its calls are started
SettledAtOnce(id) == tasks[id].pc # "idle"
\* the trainWithData call of document id has fulfilled or rejected
Settled(id) == tasks[id].pc \in {"done", "raised"}

\* TrainingService.trainBatch entered with n documents: the first group's
\* trainWithData calls are started; an empty list returns at once
BatchStart(n) ==
    /\ batch.kind = "none"
    /\ \A id \in DocIds : tasks[id].pc = "idle"
    /\ n \in 0..MaxDocs
    /\ IF n = 0
       THEN /\ batch' = [NoBatch EXCEPT !.kind = "training", !.result = "returned",
                                        !.counts = TRUE]
            /\ hasDataCache' = NULL
            /\ UNCHANGED tasks
       ELSE /\ batch' = [NoBatch EXCEPT !.kind = "training", !.n = n, !.result = "running"]
            /\ tasks' = [id \in DocIds |->
                            IF id \in Group(0, n) THEN startTraining(tasks[id]) ELSE tasks[id]]
            /\ UNCHANGED hasDataCache
    /\ UNCHANGED <<storeVars, faults, sagaLogVars>>

\* Promise.allSettled of the current group has resolved: count, then the
\* next group or the return
BatchCollect ==
    /\ batch.kind = "training" /\ batch.result = "running"
    /\ \A id \in Group(batch.i, batch.n) : Settled(id)
    /\ LET g == Group(batch.i, batch.n)
           ok == Cardinality({id \in g : tasks[id].pc = "done"})
           ko == Cardinality({id \in g : tasks[id].pc = "raised"})
           i2 == batch.i + batchSize
       IN  IF i2 < batch.n
           THEN /\ batch' = [batch EXCEPT !.i = i2, !.success = @ + ok, !.failed = @ + ko]
                /\ tasks' = [id \in DocIds |->
                                IF id \in Group(i2, batch.n) THEN startTraining(tasks[id])
                                                             ELSE tasks[id]]
                /\ UNCHANGED hasDataCache
           ELSE /\ batch' = [batch EXCEPT !.i = i2, !.success = @ + ok, !.failed = @ + ko,
                                          !.result = "returned", !.counts = TRUE]
                /\ hasDataCache' = NULL
                /\ UNCHANGED tasks
    /\ UNCHANGED <<storeVars, faults, sagaLogVars>>

\* RagService.trainBatch entered with n documents: all embeddings are
\* requested at once (Promise.all); with no document the bulk writes follow
RagBatchStart(n) ==
    /\ batch.kind = "none"
    /\ \A id \in DocIds : tasks[id].pc = "idle"
    /\ n \in 0..MaxDocs
    /\ batch' = [NoBatch EXCEPT !.kind = "rag", !.n = n, !.result = "running",
                                !.bw = IF n = 0 THEN [s \in Stores |-> "pending"] ELSE @]
    /\ tasks' = [id \in DocIds |->
                    IF id <= n THEN [tasks[id] EXCEPT !.kind = "ragbatch", !.pc = "embedding"]
                               ELSE tasks[id]]
    /\ UNCHANGED <<storeVars, faults, sagaLogVars, hasDataCache>>

\* one embedding of the Promise.all settles: the first rejection makes
\* trainBatch raise; the last fulfilment issues the three bulk writes
RagBatchEmbed(id, ok) ==
    /\ tasks[id].kind = "ragbatch" /\ tasks[id].pc = "embedding"
    /\ Answer(ok)
    /\ tasks' = [tasks EXCEPT ![id].pc = IF ok THEN "embedded" ELSE "raised",
                              ![id].error = IF ok THEN @ ELSE "embed"]
    /\ LET allOk == ok /\ \A j \in 1..batch.n : j # id => tasks[j].pc = "embedded"
       IN  /\ batch' =
                IF ~ok /\ batch.result = "running" THEN [batch EXCEPT !.result = "raised"]
                ELSE IF allOk THEN [batch EXCEPT !.bw = [s \in Stores |-> "pending"]]
                ELSE batch
           /\ writeCalls' =
                IF allOk THEN [s \in Stores |-> writeCalls[s] \cup (1..batch.n)]
                ELSE writeCalls
    /\ UNCHANGED <<storeVars, writeOk, deleteCalls, hasDataCache>>

\* upsertDocuments / bulkIndex / save(array) under Promise.all settles
RagBatchWrite(store, ok) ==
    /\ batch.kind = "rag" /\ batch.bw[store] = "pending"
    /\ Answer(ok)
    /\ LET ids == 1..batch.n
           allOk == \A s \in Stores \ {store} : batch.bw[s] = "ok"
       IN  /\ batch' =
                IF ok
                THEN [batch EXCEPT !.bw[store] = "ok",
                                   !.result = IF @ = "running" /\ allOk THEN "returned" ELSE @]
                ELSE [batch EXCEPT !.bw[store] = "failed",
                                   !.result = IF @ = "running" THEN "raised" ELSE @]
           /\ tasks' = [id \in DocIds |->
                           IF id \in ids /\ batch'.result = "returned"
                           THEN [tasks[id] EXCEPT !.pc = "done"] ELSE tasks[id]]
           /\ vectorStore' = IF ok /\ store = "vector" THEN vectorStore \cup ids
                             ELSE vectorStore
           /\ keywordStore' = IF ok /\ store = "keyword" THEN keywordStore \cup ids
                              ELSE keywordStore
           /\ relationalStore' = IF ok /\ store = "relational" THEN relationalStore \cup ids
                                 ELSE relationalStore
           /\ writeOk' = IF ok THEN [writeOk EXCEPT ![store] = @ \cup ids] ELSE writeOk
    /\ UNCHANGED <<writeCalls, deleteCalls, hasDataCache>>


InitTraining ==
    /\ vectorStore = {}
    /\ keywordStore = {}
    /\ relationalStore = {}
    /\ tasks = [id \in DocIds |-> IdleTask]
    /\ faults = 0
    /\ writeCalls = [s \in Stores |-> {}]
    /\ writeOk = [s \in Stores |-> {}]
    /\ deleteCalls = [s \in Stores |-> [id \in DocIds |-> 0]]
    /\ hasDataCache = NULL
    /\ batch = NoBatch

(***************************************************************************)
(* RagService / RetrievalService: response and query-variation caches      *)
(***************************************************************************)
CACHE_TTL == 300000
MAX_CACHE_SIZE == 1000
TRIMMED_CACHE_SIZE == 500

\* strings are sequences of character codes
ToLowerCase(str) ==
    [i \in 1..Len(str) |-> IF str[i] \in 65..90 THEN str[i] + 32 ELSE str[i]]

Slice(str, n) == SubSeq(str, 1, Min(n, Len(str)))

\* rag.defaultInstructions, session.instructions of a new session ("You")
DefaultInstructions == <<89, 111, 117>>

\* `${instructions.slice(0, 50)}|${message.slice(0, 100)}`.toLowerCase()
generateCacheKey(message, instructions) ==
    ToLowerCase(Slice(instructions, 50) \o <<124>> \o Slice(message, 100))

\* query.slice(0, 50).toLowerCase()
queryCacheKey(query) == ToLowerCase(Slice(query, 50))

\* Map.get: <<entry>> when an entry is stored under key, <<>> when none is
CacheGet(cache, key) == SelectSeq(cache, LAMBDA e : e.key = key)

\* Map.set: an existing key keeps its place, a new key goes last
CacheSet(cache, key, value, t) ==
    LET e == [key |-> key, value |-> value, timestamp |-> t]
        hits == {i \in 1..Len(cache) : cache[i].key = key}
    IN  IF hits = {} THEN Append(cache, e)
        ELSE [i \in 1..Len(cache) |-> IF i \in hits THEN e ELSE cache[i]]

\* cached && Date.now() - cached.timestamp < CACHE_TTL
isFreshAlways(cached, t) == cached # <<>>

isFresh(cached, t) == cached # <<>> /\ t - cached[1].timestamp < CACHE_TTL

\* the cleanup loop: delete entries with now - timestamp > CACHE_TTL
Expire(cache, t) == SelectSeq(cache, LAMBDA e : ~(t - e.timestamp > CACHE_TTL))

\* entries.sort((a, b) => b[1].timestamp - a[1].timestamp): stable, newest
\* first.  ahead[j] is the number of entries the sort puts before entry j.
SortNewestFirst(cache) ==
    LET n == Len(cache)
        stamp == [k \in 1..n |-> cache[k].timestamp] \o <<>>
        ahead == [j \in 1..n |->
                    Cardinality({k \in 1..n :
                        \/ stamp[k] > stamp[j]
                        \/ stamp[k] = stamp[j] /\ k < j})] \o <<>>
    IN  [i \in 1..n |-> cache[CHOOSE j \in 1..n : ahead[j] = i - 1]]

\* if (size > 1000) keep the 500 newest
LimitSize(cache) ==
    IF Len(cache) > MAX_CACHE_SIZE
    THEN SubSeq(SortNewestFirst(cache), 1, TRIMMED_CACHE_SIZE)
    ELSE cache

cleanupCache(cache, t) == LimitSize(Expire(cache, t))

\* a lookup that found an entry, with the entry's age and whether it was used
NoRead == [cache |-> "none", age |-> 0]

Read(cache, cached, t) ==
    IF cached = <<>> THEN reads
    ELSE IF isFresh(cached, t)
         THEN [reads EXCEPT !.hit = [cache |-> cache, age |-> t - cached[1].timestamp]]
         ELSE [reads EXCEPT !.miss = [cache |-> cache, age |-> t - cached[1].timestamp]]

\* characters matched by \s (the ASCII ones)
WhiteSpace == {9, 10, 11, 12, 13, 32}

\* response.split('\n')
RECURSIVE SplitLines(_)
SplitLines(str) ==
    LET breaks == {i \in 1..Len(str) : str[i] = 10}
    IN  IF breaks = {} THEN <<str>>
        ELSE LET i == CHOOSE k \in breaks : \A l \in breaks : k <= l
             IN  <<SubSeq(str, 1, i - 1)>> \o SplitLines(SubSeq(str, i + 1, Len(str)))

\* String.prototype.trim
TrimNothing(str) == str

Trim(str) ==
    LET inked == {i \in 1..Len(str) : str[i] \notin WhiteSpace}
    IN  IF inked = {} THEN <<>>
        ELSE SubSeq(str, CHOOSE k \in inked : \A l \in inked : k <= l,
                         CHOOSE k \in inked : \A l \in inked : k >= l)

\* generateQueryVariations: the original query, then up to 3 of the
\* completion's trimmed lines that are not empty and differ from the query;
\* [query] when generateResponse throws (provider failure, open circuit).
\* answer.kind is "throw", "open" or "text", answer.text the text returned.
generateQueryVariations(query, answer) ==
    IF answer.kind \in {"throw", "open"} THEN <<query>>
    ELSE LET lines == SplitLines(answer.text)
             trimmed == [i \in 1..Len(lines) |-> Trim(lines[i])]
         IN  <<query>> \o Slice(SelectSeq(trimmed, LAMBDA v : Len(v) > 0 /\ v # query), 3)

\* what the completion provider answers to the variation prompt: it throws,
\* or returns a text (here "v")
Threw(kind) == [kind |-> kind, text |-> <<>>]
Text(str) == [kind |-> "text", text |-> str]

VariationAnswers == {Threw("throw"), Text(<<118>>)}

IdleTurn ==
    [pc |-> "idle", kind |-> "none", message |-> <<>>, key |-> <<>>, response |-> NULL]

TurnIds == 1..MaxTurns

\* chat / chatStream up to the first await after the response-cache check:
\* a fresh entry is returned (streamed) at once
TurnBegin(id, kind, message, instructions) ==
    /\ turns[id].pc = "idle"
    /\ \A j \in 1..(id - 1) : turns[j].pc # "idle"
    /\ begun < MaxLookups
    /\ begun' = begun + 1
    /\ LET key == generateCacheKey(message, instructions)
           cached == CacheGet(responseCache, key)
       IN  /\ reads' = Read("response", cached, now)
           /\ turns' = [turns EXCEPT ![id] =
                 IF isFresh(cached, now)
                 THEN [IdleTurn EXCEPT !.response = cached[1].value]
                 ELSE [pc |-> "hasData", kind |-> kind, message |-> message,
                       key |-> key, response |-> NULL]]
    /\ UNCHANGED <<responseCache, queryCache, retrievalCache, retrieval, pendingCleanups>>

\* hasIndexedDocuments() has answered: chat with data looks for cached query
\* variations; otherwise the turn goes on to retrieval or generation
TurnHasData(id, hasData) ==
    /\ turns[id].pc = "hasData"
    /\ IF turns[id].kind = "chat" /\ hasData
       THEN LET cached == CacheGet(queryCache, queryCacheKey(turns[id].message))
            IN  /\ reads' = Read("query", cached, now)
                /\ turns' = [turns EXCEPT ![id].pc =
                                IF isFresh(cached, now) THEN "search" ELSE "variations"]
       ELSE /\ turns' = [turns EXCEPT ![id].pc = IF hasData THEN "search" ELSE "generate"]
            /\ UNCHANGED reads
    /\ UNCHANGED <<responseCache, queryCache, retrievalCache, retrieval, pendingCleanups>>
    /\ UNCHANGED begun

\* generateQueryVariations has returned: queryCache.set
TurnVariations(id, answer) ==
    /\ turns[id].pc = "variations"
    /\ queryCache' = CacheSet(queryCache, queryCacheKey(turns[id].message),
                              generateQueryVariations(turns[id].message, answer), now)
    /\ turns' = [turns EXCEPT ![id].pc = "search"]
    /\ UNCHANGED <<responseCache, retrievalCache, retrieval, pendingCleanups, reads>>
    /\ UNCHANGED begun

\* The collaborators of retrieval
Collaborators == {"embedding", "vector", "keyword"}

\* Whether retrieval throws when the collaborators in down fail.
\* chat: parallelMultiQueryRetrieval catches what generateEmbedding throws and
\* returns the promise of vectorDbService.search without awaiting it, so a
\* vector search reached and failed rejects the Promise.all of chat;
\* elasticsearchService.search catches its own errors.
\* chatStream: vectorDbService.search(await generateEmbedding(..)) has no
\* catch around it.
retrievalThrows(kind, down) ==
    IF kind = "chat"
    THEN "embedding" \notin down /\ "vector" \in down
    ELSE "embedding" \in down \/ "vector" \in down

\* the vector and keyword searches have settled, the collaborators in down
\* having failed: the turn goes on to generation, or ends with the error
TurnSearched(id, down) ==
    /\ turns[id].pc = "search"
    /\ turns' = [turns EXCEPT ![id] =
                    IF retrievalThrows(turns[id].kind, down) THEN IdleTurn
                    ELSE [turns[id] EXCEPT !.pc = "generate"]]
    /\ UNCHANGED <<responseCache, queryCache, retrievalCache, retrieval,
                   pendingCleanups, reads>>
    /\ UNCHANGED begun

\* the completion has been generated (streamed to the end): responseCache.set
\* and setTimeout(cleanupCache); or generation threw
TurnGenerated(id, ok, response) ==
    /\ turns[id].pc = "generate"
    /\ IF ok
       THEN /\ pendingCleanups < MaxPendingCleanups
            /\ responseCache' = CacheSet(responseCache, turns[id].key, response, now)
            /\ pendingCleanups' = pendingCleanups + 1
            /\ turns' = [turns EXCEPT ![id] = [IdleTurn EXCEPT !.response = response]]
       ELSE /\ turns' = [turns EXCEPT ![id] = IdleTurn]
            /\ UNCHANGED <<responseCache, pendingCleanups>>
    /\ UNCHANGED <<queryCache, retrievalCache, retrieval, reads>>
    /\ UNCHANGED begun

\* RagService.cleanupCache, run by its timer, on the two caches
CleanupTimer ==
    /\ pendingCleanups > 0
    /\ pendingCleanups' = pendingCleanups - 1
    /\ queryCache' = cleanupCache(queryCache, now)
    /\ responseCache' = cleanupCache(responseCache, now)
    /\ UNCHANGED <<retrievalCache, turns, retrieval, reads>>
    /\ UNCHANGED begun

\* no multiQueryRetrieval call is running and none has returned
IdleRetrieval == [pc |-> "idle", query |-> <<>>, variations |-> <<>>, searches |-> <<>>]

\* parseInt(process.env.RAG_TOP_K || '5')
DEFAULT_TOP_K == 5

\* Math.ceil(a / b)
Ceil(a, b) == (a + b - 1) \div b

\* parallelMultiQueryRetrieval: every string of queries is embedded and
\* searched with topK = Math.ceil(this.topK / queries.length)
parallelMultiQueryRetrieval(queries, topK) ==
    [i \in 1..Len(queries) |-> [query |-> queries[i], topK |-> Ceil(topK, Len(queries))]]

\* what a multiQueryRetrieval call for query leaves when it has searched
\* with variations (this.topK is DEFAULT_TOP_K when none is configured)
Retrieved(query, variations) ==
    [pc |-> "idle", query |-> query, variations |-> variations,
     searches |-> parallelMultiQueryRetrieval(variations, DEFAULT_TOP_K)]

\* RetrievalService.multiQueryRetrieval up to the await in
\* getCachedQueryVariations; with cached variations the searches follow
RetrievalBegin(query) ==
    /\ retrieval.pc = "idle"
    /\ begun < MaxLookups
    /\ begun' = begun + 1
    /\ LET cached == CacheGet(retrievalCache, queryCacheKey(query))
       IN  /\ reads' = Read("retrieval", cached, now)
           /\ retrieval' = IF isFresh(cached, now)
                           THEN Retrieved(query, cached[1].value)
                           ELSE [IdleRetrieval EXCEPT !.pc = "variations", !.query = query]
    /\ UNCHANGED <<responseCache, queryCache, retrievalCache, turns, pendingCleanups>>

\* generateQueryVariations has returned: this.queryCache.set, then the
\* searches
RetrievalVariations(answer) ==
    /\ retrieval.pc = "variations"
    /\ LET v == generateQueryVariations(retrieval.query, answer)
       IN  /\ retrievalCache' =
                CacheSet(retrievalCache, queryCacheKey(retrieval.query), v, now)
           /\ retrieval' = Retrieved(retrieval.query, v)
    /\ UNCHANGED <<responseCache, queryCache, turns, pendingCleanups, reads>>
    /\ UNCHANGED begun

\* RetrievalService.cleanupCache (public; nothing in the repository calls it)
RetrievalCleanup ==
    /\ retrievalCache' = cleanupCache(retrievalCache, now)
    /\ UNCHANGED <<responseCache, queryCache, turns, retrieval, pendingCleanups, reads>>
    /\ UNCHANGED begun

InitCaches ==
    /\ responseCache = <<>>
    /\ queryCache = <<>>
    /\ retrievalCache = <<>>
    /\ turns = [id \in TurnIds |-> IdleTurn]
    /\ retrieval = IdleRetrieval
    /\ pendingCleanups = 0
    /\ reads = [hit |-> NoRead, miss |-> NoRead]
    /\ begun = 0

(***************************************************************************)
(* RagService: sessions and the chat / chatStream turns on them            *)
(***************************************************************************)
\* 60 * 60 * 1000: a session idle for longer leaves the local map
SESSION_MAX_AGE == 3600000
\* the seconds a session key lives in the shared store after it is set
SESSION_TTL == 3600

SessionIds == 1..MaxSessions
\* chat(message) with no sessionId
NoSessionId == 0

NoSession ==
    [created |-> FALSE, held |-> FALSE, instructions |-> <<>>, history |-> <<>>,
     createdAt |-> 0, lastActivity |-> 0]

\* What redisService.set writes: the session as it is at the call
Stored(session) ==
    [instructions |-> session.instructions, history |-> session.history,
     createdAt |-> session.createdAt, lastActivity |-> session.lastActivity]

\* a set that leaves the expiry of a key that exists as it is
RedisSetKeepTtl(store, sid, value, t) ==
    [store EXCEPT ![sid] =
        <<[value |-> value,
           expires |-> IF @ # <<>> THEN @[1].expires ELSE t + SESSION_TTL * 1000]>>]

\* redisService.set(key, value, SESSION_TTL): the key lives SESSION_TTL seconds
RedisSet(store, sid, value, t) ==
    [store EXCEPT ![sid] = <<[value |-> value, expires |-> t + SESSION_TTL * 1000]>>]

\* redisService.get(key): <<>> for null
RedisGet(store, sid, t) ==
    IF sid \in SessionIds /\ store[sid] # <<>> /\ t < store[sid][1].expires
    THEN <<store[sid][1].value>>
    ELSE <<>>

\* session.history.push({ role, content }); turn is the number of the call
\* that pushes, in call order
pushNothing(history, role, content, turn) == history

pushTwice(history, role, content, turn) ==
    history \o << [role |-> role, content |-> content, turn |-> turn],
                  [role |-> role, content |-> content, turn |-> turn] >>

push(history, role, content, turn) ==
    Append(history, [role |-> role, content |-> content, turn |-> turn])

\* persistSession: redisService.set(`session:${id}`, session, 3600)
persistNothing(store, sid, session, t) == store

persistSession(store, sid, session, t) == RedisSet(store, sid, Stored(session), t)

\* the id createSession draws (uuidv4): one never used before
FreshIds ==
    {sid \in SessionIds :
        ~sessions[sid].created /\ ~peer[sid].created /\ redis[sid] = <<>>}
NewSessionId == CHOOSE sid \in FreshIds : \A other \in FreshIds : sid <= other

\* the session the id names in the local map local, if the map holds one
Held(local, sid) == sid \in SessionIds /\ local[sid].held

\* the new session of createSession
NewSession(t) ==
    [created |-> TRUE, held |-> TRUE, instructions |-> globalInstructions,
     history |-> <<>>, createdAt |-> t, lastActivity |-> t]

\* Where getOrCreateSession finds the session of an id: in the local map,
\* else in the shared store, else nowhere (as when no id is given)
sessionSourceRedisFirst(local, sid, t) ==
    IF RedisGet(redis, sid, t) # <<>> THEN "durable"
    ELSE IF Held(local, sid) THEN "local"
    ELSE "created"

sessionSource(local, sid, t) ==
    IF Held(local, sid) THEN "local"
    ELSE IF RedisGet(redis, sid, t) # <<>> THEN "durable"
    ELSE "created"

\* getOrCreateSession: a session of the local map is touched; one found only
\* in the shared store is restored into the map; otherwise createSession
\* makes a session under a new id
getOrCreateSessionIn(local, sid, t) ==
    LET source == sessionSource(local, sid, t)
    IN  IF source = "local"
        THEN [local[sid] EXCEPT !.lastActivity = t]
        ELSE IF source = "durable"
             THEN LET stored == RedisGet(redis, sid, t)[1]
                  IN  [created |-> TRUE, held |-> TRUE,
                       instructions |-> stored.instructions,
                       history |-> stored.history, createdAt |-> stored.createdAt,
                       lastActivity |-> t]
             ELSE NewSession(t)

getOrCreateSession(sid, t) == getOrCreateSessionIn(sessions, sid, t)

ResolvedIn(local, sid) ==
    IF sessionSource(local, sid, now) = "created" THEN NewSessionId ELSE sid
Resolved(sid) == ResolvedIn(sessions, sid)
ResolvesIn(local, sid) == sessionSource(local, sid, now) = "created" => FreshIds # {}
Resolves(sid) == ResolvesIn(sessions, sid)

\* RagService.createSession, called for itself: the new session is written to
\* the shared store and put in the local map
createSession ==
    /\ FreshIds # {}
    /\ LET session == getOrCreateSession(NoSessionId, now)
       IN  /\ redis' = persistSession(redis, NewSessionId, session, now)
           /\ sessions' = [sessions EXCEPT ![NewSessionId] = session]
    /\ UNCHANGED <<running, trace, chatHistory>>

\* The trace of one call: the session id it was given and the session it
\* ran on, whether it created that session, the time it began and the
\* earlier calls that had ended by then
Started(kind, given, sid, message) ==
    [kind |-> kind, given |-> given, session |-> sid, created |-> given # sid,
     message |-> message, at |-> now,
     settled |-> {i \in 1..Len(trace) : trace[i].result # "running"},
     hasData |-> "unknown",
     called |-> {}, outage |-> FALSE, completions |-> 0, chunks |-> 0,
     cached |-> FALSE, result |-> "running", failedAt |-> "none", answer |-> NULL,
     dbFailed |-> FALSE, source |-> "created"]

\* the collaborators retrieval calls when those in down fail: chat starts the
\* embedding and the keyword search at once and the vector search once the
\* embedding is there; chatStream awaits the embedding before both searches
calledBy(kind, down) ==
    IF "embedding" \in down
    THEN IF kind = "chat" THEN {"embedding", "keyword"} ELSE {"embedding"}
    ELSE Collaborators

\* chat / chatStream from the call to the first await after the cache check
ChatBegin(id, kind, message, sid) ==
    /\ Resolves(sid)
    /\ TurnBegin(id, kind, message, getOrCreateSession(sid, now).instructions)
    /\ LET target == Resolved(sid)
           n == begun + 1
           session == getOrCreateSession(sid, now)
           created == target # sid
           hit == turns'[id].pc = "idle"
           answer == turns'[id].response
           history == IF hit
                      THEN push(push(session.history, "user", message, n),
                                "assistant", answer, n)
                      ELSE IF kind = "stream"
                           THEN push(session.history, "user", message, n)
                           ELSE session.history
           after == [session EXCEPT !.history = history]
           store == IF created THEN persistSession(redis, target, session, now) ELSE redis
       IN  /\ sessions' = [sessions EXCEPT ![target] = after]
           /\ redis' = IF hit THEN persistSession(store, target, after, now) ELSE store
           /\ running' = [running EXCEPT ![id] = IF hit THEN 0 ELSE n]
           /\ trace' = Append(trace,
                 IF hit
                 THEN [Started(kind, sid, target, message) EXCEPT
                          !.cached = TRUE, !.result = "returned", !.answer = answer,
                          !.source = sessionSource(sessions, sid, now)]
                 ELSE [Started(kind, sid, target, message) EXCEPT
                          !.source = sessionSource(sessions, sid, now)])
    /\ UNCHANGED chatHistory

\* hasIndexedDocuments() has answered; chat with nothing indexed pushes the
\* user message and asks for the completion
ChatHasData(id, hasData) ==
    /\ TurnHasData(id, hasData)
    /\ LET n == running[id]
           sid == trace[n].session
       IN  /\ trace' = [trace EXCEPT ![n].hasData = IF hasData THEN "yes" ELSE "no"]
           /\ sessions' =
                IF turns[id].kind = "chat" /\ ~hasData
                THEN [sessions EXCEPT ![sid].history =
                         push(@, "user", turns[id].message, n)]
                ELSE sessions
    /\ UNCHANGED <<redis, running, chatHistory>>

\* generateQueryVariations, a call of the completion provider, has returned
ChatVariations(id, answer) ==
    /\ TurnVariations(id, answer)
    /\ trace' = [trace EXCEPT ![running[id]].completions = @ + 1]
    /\ UNCHANGED <<sessions, redis, running, chatHistory>>

\* retrieval has settled: chat then pushes the user message and asks for the
\* completion; a retrieval that throws ends the turn with the error
ChatSearched(id, down) ==
    /\ TurnSearched(id, down)
    /\ LET n == running[id]
           sid == trace[n].session
           kind == turns[id].kind
           throws == retrievalThrows(kind, down)
       IN  /\ trace' = [trace EXCEPT ![n] =
                 [@ EXCEPT !.called = calledBy(kind, down), !.outage = down # {},
                           !.result = IF throws THEN "raised" ELSE @,
                           !.failedAt = IF throws THEN "retrieval" ELSE @]]
           /\ sessions' =
                IF kind = "chat" /\ ~throws
                THEN [sessions EXCEPT ![sid].history =
                         push(@, "user", turns[id].message, n)]
                ELSE sessions
           /\ running' = [running EXCEPT ![id] = IF throws THEN 0 ELSE @]
    /\ UNCHANGED <<redis, chatHistory>>

\* which of the two chatHistoryRepository.save calls of one turn fails
DbFailures == {"none", "user", "assistant"}

\* persistChatHistoryToDb: the user row, then the assistant row; the first
\* save that fails ends it, the error is logged and not thrown
persistChatHistoryToDb(rows, sid, message, response, fails) ==
    LET user == [session |-> sid, role |-> "user", content |-> message]
        assistant == [session |-> sid, role |-> "assistant", content |-> response]
    IN  IF fails = "user" THEN rows
        ELSE IF fails = "assistant" THEN Append(rows, user)
        ELSE rows \o <<user, assistant>>

\* How a turn ends whose generation ended (ok) or threw, fails telling how
\* the write of its rows went: Promise.all([persistSession,
\* persistChatHistoryToDb]).catch(log) is started and not awaited
turnResultDbAwaited(ok, fails) == IF ok /\ fails = "none" THEN "returned" ELSE "raised"

turnResult(ok, fails) == IF ok THEN "returned" ELSE "raised"

\* the completion has been generated (streamed to the end, in chunks
\* chunks): the assistant message is pushed, the session persisted and the
\* rows of the turn written; or generation threw (chatStream: after yielding
\* chunks chunks) and the error is rethrown
ChatGenerated(id, ok, response, chunks, fails) ==
    /\ TurnGenerated(id, ok, response)
    /\ LET n == running[id]
           sid == trace[n].session
           session == [sessions[sid] EXCEPT
                          !.history = push(@, "assistant", response, n),
                          !.lastActivity = IF turns[id].kind = "stream" THEN now ELSE @,
                          !.held = TRUE]
           result == turnResult(ok, fails)
       IN  /\ trace' = [trace EXCEPT ![n] =
                 [@ EXCEPT !.completions = @ + 1, !.chunks = chunks,
                           !.result = result,
                           !.failedAt = IF ok THEN @ ELSE "generation",
                           !.answer = IF result = "returned" THEN response ELSE @,
                           !.dbFailed = ok /\ fails # "none"]]
           /\ sessions' = IF ok THEN [sessions EXCEPT ![sid] = session] ELSE sessions
           /\ redis' = IF ok THEN persistSession(redis, sid, session, now) ELSE redis
           /\ chatHistory' =
                IF ok
                THEN persistChatHistoryToDb(chatHistory, sid, turns[id].message,
                                            response, fails)
                ELSE chatHistory
    /\ running' = [running EXCEPT ![id] = 0]

\* the consumer of chatStream stops after a chunk, the completion still
\* streaming: the generators return at their yield, nothing after it runs
TurnAbandoned(id) ==
    /\ turns[id].pc = "generate" /\ turns[id].kind = "stream"
    /\ turns' = [turns EXCEPT ![id] = IdleTurn]
    /\ UNCHANGED <<responseCache, queryCache, retrievalCache, retrieval,
                   pendingCleanups, reads, begun>>

ChatAbandoned(id) ==
    /\ TurnAbandoned(id)
    /\ trace' = [trace EXCEPT ![running[id]] =
                    [@ EXCEPT !.completions = @ + 1, !.chunks = 1, !.result = "abandoned"]]
    /\ running' = [running EXCEPT ![id] = 0]
    /\ UNCHANGED <<sessions, redis, chatHistory>>

\* the consumer of chatStream stops after the first chunk of a cached
\* response: the pushes and persistSession precede the first yield
ChatCachedAbandoned ==
    /\ trace # <<>>
    /\ LET n == Len(trace)
       IN  /\ trace[n].kind = "stream" /\ trace[n].cached /\ trace[n].result = "returned"
           /\ trace' = [trace EXCEPT ![n] = [@ EXCEPT !.chunks = 1, !.result = "abandoned"]]
    /\ UNCHANGED <<sessions, redis, running, chatHistory>>

\* a sweep that also takes the sessions last active exactly an hour ago
SweepSessionsAtHour(t) ==
    [sid \in SessionIds |->
        IF sessions[sid].held /\ sessions[sid].lastActivity <= t - SESSION_MAX_AGE
        THEN [sessions[sid] EXCEPT !.held = FALSE]
        ELSE sessions[sid]]

\* the session part of RagService.cleanupCache
SweepSessions(t) ==
    [sid \in SessionIds |->
        IF sessions[sid].held /\ sessions[sid].lastActivity < t - SESSION_MAX_AGE
        THEN [sessions[sid] EXCEPT !.held = FALSE]
        ELSE sessions[sid]]

ChatCleanupTimer ==
    /\ CleanupTimer
    /\ sessions' = SweepSessions(now)
    /\ UNCHANGED <<redis, running, trace, chatHistory>>

InitChat ==
    /\ sessions = [sid \in SessionIds |-> NoSession]
    /\ redis = [sid \in SessionIds |-> <<>>]
    /\ running = [id \in TurnIds |-> 0]
    /\ trace = <<>>
    /\ chatHistory = <<>>

\* A chat turn on the second instance, its steps taken together: the session
\* is looked up in that instance's map, the two messages are pushed and the
\* session is persisted
PeerTurn(sid, message, response) ==
    /\ ResolvesIn(peer, sid)
    /\ begun < MaxLookups
    /\ begun' = begun + 1
    /\ LET target == ResolvedIn(peer, sid)
           n == begun + 1
           session == getOrCreateSessionIn(peer, sid, now)
           after == [session EXCEPT
                        !.history = push(push(@, "user", message, n),
                                         "assistant", response, n)]
           store == IF target # sid THEN persistSession(redis, target, session, now)
                    ELSE redis
       IN  /\ peer' = [peer EXCEPT ![target] = after]
           /\ redis' = persistSession(store, target, after, now)
           /\ trace' = Append(trace,
                 [Started("peer", sid, target, message) EXCEPT
                     !.result = "returned", !.answer = response,
                     !.source = sessionSource(peer, sid, now)])
    /\ UNCHANGED <<sessions, running, chatHistory>>
    /\ UNCHANGED <<responseCache, queryCache, retrievalCache, turns, retrieval,
                   pendingCleanups, reads>>

\* createSession on the second instance
PeerCreate ==
    /\ FreshIds # {}
    /\ peer' = [peer EXCEPT ![NewSessionId] = NewSession(now)]
    /\ redis' = persistSession(redis, NewSessionId, NewSession(now), now)
    /\ UNCHANGED <<sessions, running, trace, chatHistory>>

NoOp == [seq |-> 0, op |-> "none", sid |-> NoSessionId, existed |-> FALSE, result |-> <<>>]

\* the session operation op on sid has returned result
Called(op, sid, result) ==
    [seq |-> lastOp.seq + 1, op |-> op, sid |-> sid,
     existed |-> Held(sessions, sid) \/ RedisGet(redis, sid, now) # <<>>,
     result |-> result]

\* RagService.clearSession
clearSession(sid) ==
    /\ LET stored == RedisGet(redis, sid, now)
       IN  IF stored # <<>>
           THEN /\ redis' = RedisSet(redis, sid, [stored[1] EXCEPT !.history = <<>>], now)
                /\ sessions' = IF Held(sessions, sid)
                               THEN [sessions EXCEPT ![sid].history = <<>>]
                               ELSE sessions
           ELSE UNCHANGED <<redis, sessions>>
    /\ lastOp' = Called("clear", sid, <<>>)

\* what getSessionInfo returns of a session
SessionInfo(session) ==
    [messageCount |-> Len(session.history), createdAt |-> session.createdAt,
     lastActivity |-> session.lastActivity]

\* RagService.getSessionInfo: <<>> for null
getSessionInfo(sid) ==
    /\ lastOp' = Called("info", sid,
                        IF Held(sessions, sid) THEN <<SessionInfo(sessions[sid])>>
                        ELSE IF RedisGet(redis, sid, now) # <<>>
                             THEN <<SessionInfo(RedisGet(redis, sid, now)[1])>>
                             ELSE <<>>)
    /\ UNCHANGED <<redis, sessions>>

\* RagService.deleteSession
deleteSession(sid) ==
    /\ redis' = [redis EXCEPT ![sid] = <<>>]
    /\ sessions' = [sessions EXCEPT ![sid].held = FALSE]
    /\ lastOp' = Called("delete", sid, <<>>)

\* 30 * 1000: the milliseconds an answer of hasIndexedDocuments is reused
HAS_DATA_CACHE_TTL == 30000

\* RagService.hasIndexedDocuments at time t, stored telling whether
\* documentRepository.count finds a row: the answer and the cache it leaves
hasIndexedDocumentsProbing(cache, stored, t) ==
    [hasData |-> stored, cache |-> <<[hasData |-> stored, timestamp |-> t]>>]

hasIndexedDocuments(cache, stored, t) ==
    IF cache # <<>> /\ t - cache[1].timestamp < HAS_DATA_CACHE_TTL
    THEN [hasData |-> cache[1].hasData, cache |-> cache]
    ELSE [hasData |-> stored, cache |-> <<[hasData |-> stored, timestamp |-> t]>>]

\* RagService.updateInstructions
updateInstructions(instructions) == globalInstructions' = instructions

\* The keys whose cache entries were written before the last change of the
\* instructions or of the training data, the number of calls begun when a
\* training call last succeeded (-1: none has), and the instruction updates
NoChange == [response |-> {}, query |-> {}, trainedAt |-> -1, updates |-> 0]

KeysOf(cache) == {cache[i].key : i \in 1..Len(cache)}

\* the instructions, or the training data, change
Changed(trained) ==
    [response |-> KeysOf(responseCache), query |-> KeysOf(queryCache),
     trainedAt |-> IF trained THEN Len(trace) ELSE lastChange.trainedAt,
     updates |-> lastChange.updates]

\* the entry under key is written anew
Rewritten(cacheName, key) ==
    IF cacheName = "response" THEN [lastChange EXCEPT !.response = @ \ {key}]
    ELSE [lastChange EXCEPT !.query = @ \ {key}]

\* the tokens of the model
MaxTokens == 2
Tokens == 1..MaxTokens
\* the seconds an access token is valid (JWT_EXPIRATION)
TokenSeconds == 2

NoToken == [exp |-> 0, revoked |-> FALSE, loggedOut |-> FALSE]
NoRequest ==
    [seq |-> 0, token |-> 0, valid |-> FALSE, revoked |-> FALSE, loggedOut |-> FALSE,
     outcome |-> "none"]

\* Math.floor(Date.now() / 1000)
Seconds(t) == t \div 1000

\* AuthService.login: jwtService.sign stamps exp
login(token) ==
    /\ tokens[token].exp = 0
    /\ tokens' = [tokens EXCEPT ![token].exp = Seconds(now) + TokenSeconds]
    /\ UNCHANGED <<blacklist, lastRequest>>

\* the default JWT validation (ignoreExpiration: false): the token was
\* signed here and is not expired
jwtValid(token, t) == tokens[token].exp # 0 /\ Seconds(t) < tokens[token].exp

\* redisService.get of the blacklist key: null (FALSE) when there is no
\* live key, and when the read fails
blacklistGet(token, t, getOk) ==
    getOk /\ blacklist[token] # <<>> /\ t < blacklist[token][1]

\* AuthService.isTokenBlacklisted
isTokenBlacklisted(token, t, getOk) == blacklistGet(token, t, getOk)

\* JwtAuthGuard.canActivate on a route that is not public
canActivate(token, t, getOk) == jwtValid(token, t) /\ ~isTokenBlacklisted(token, t, getOk)

\* AuthService.blacklistToken: the key lives until the token expires; an
\* error of redisService.set is caught and ignored
blacklistToken(token, t, setOk) ==
    LET ttl == tokens[token].exp - Seconds(t)
    IN  IF tokens[token].exp # 0 /\ ttl > 0 /\ setOk
        THEN [blacklist EXCEPT ![token] = <<t + ttl * 1000>>]
        ELSE blacklist

\* what the request now made with token is, and how it ended
Requested(token, outcome) ==
    [seq |-> lastRequest.seq + 1, token |-> token, valid |-> jwtValid(token, now),
     revoked |-> tokens[token].revoked, loggedOut |-> tokens[token].loggedOut,
     outcome |-> outcome]

\* a request to a protected route
request(token, getOk) ==
    /\ lastRequest' = Requested(token, IF canActivate(token, now, getOk)
                                        THEN "accepted" ELSE "rejected")
    /\ UNCHANGED <<tokens, blacklist>>

\* POST /auth/logout, a protected route: the guard, then blacklistToken
logout(token, getOk, setOk) ==
    /\ canActivate(token, now, getOk)
    /\ blacklist' = blacklistToken(token, now, setOk)
    /\ tokens' = [tokens EXCEPT ![token].loggedOut = TRUE,
                                 ![token].revoked = @ \/ blacklist'[token] # blacklist[token]]
    /\ UNCHANGED lastRequest

(***************************************************************************)
(* Compose: RagService.buildOptimizedConversationMessages and the message  *)
(* mapping of LlmService.generateResponse / generateStreamingResponse      *)
(***************************************************************************)
MaxHistory == 8
\* the history entries sent along: session.history.slice(-6)
RECENT_HISTORY == 6

\* array.slice(-n)
SliceLast(array, n) ==
    SubSeq(array, Len(array) - Min(n, Len(array)) + 1, Len(array))

HistoryEntry(role, content) == [role |-> role, content |-> content]

\* `${instructions}${context}`
buildSystemPrompt(instructions, context) == instructions \o context

\* [{ role: 'system', content: `${session.instructions}${context}` }, ...session.history.slice(-6)]
buildOptimizedConversationMessages(session, context) ==
    <<HistoryEntry("system", session.instructions \o context)>>
        \o SliceLast(session.history, RECENT_HISTORY)

\* msg.role.toLowerCase() === 'user' ? 'user' : 'assistant' (the roles here
\* are lower case already)
groqRole(role) == IF role = "user" THEN "user" ELSE "assistant"

\* groqMessages: the system prompt if it is not empty, then every message
\* with its role mapped
groqMessages(messages, systemPrompt) ==
    (IF systemPrompt # <<>> THEN <<HistoryEntry("system", systemPrompt)>> ELSE <<>>)
        \o [i \in 1..Len(messages) |-> HistoryEntry(groqRole(messages[i].role), messages[i].content)]

NoCompose == [instructions |-> DefaultInstructions, history |-> <<>>,
              before |-> <<>>, message |-> <<>>, context |-> <<>>, sent |-> <<>>]

\* an earlier turn's entry: session.history.push; the content is the
\* position of the entry
ComposePush(role) ==
    /\ Len(compose.history) < MaxHistory
    /\ compose' = [compose EXCEPT
            !.history = Append(@, HistoryEntry(role, <<Len(compose.history) + 1>>))]

\* chat, steps 6 to 8: session.history.push of the user message,
\* buildOptimizedConversationMessages, buildSystemPrompt, and the messages
\* generateResponse hands to the provider
ComposeChat(message, context) ==
    /\ Len(compose.history) < MaxHistory
    /\ LET session == [instructions |-> compose.instructions,
                       history |-> Append(compose.history, HistoryEntry("user", message))]
           messages == buildOptimizedConversationMessages(session, context)
           systemPrompt == buildSystemPrompt(session.instructions, context)
       IN  compose' = [compose EXCEPT
                !.history = session.history, !.before = compose.history,
                !.message = message, !.context = context,
                !.sent = groqMessages(messages, systemPrompt)]

InitCompose == compose = NoCompose

(***************************************************************************)
(* ConversationService.sendMessage                                         *)
(***************************************************************************)
MaxSendCalls == 2
MaxSends == 3
SendCalls == 1..MaxSendCalls

\* a sendMessage call: where it is, whether it streams, and the
\* messageCount of the Conversation object its findOne loaded
IdleSend == [pc |-> "idle", streaming |-> FALSE, loaded |-> 0]

\* createConversation: messageCount 0, no rows
NoConversation ==
    [messageCount |-> 0, rows |-> <<>>, sends |-> 0,
     calls |-> [c \in SendCalls |-> IdleSend]]

\* chatHistoryRepository.save of a row of the conversation
saveRow(rows, role, call) == Append(rows, [role |-> role, call |-> call])

\* updateConversationMetadata: conversation.messageCount += 2 on the object
\* the call loaded, then conversationRepository.save(conversation)
updateConversationMetadata(stored, loaded) == loaded + 2

\* sendMessage up to the dispatch: conversationRepository.findOne loads the
\* Conversation; streamMessageWithHistory saves the user row first,
\* sendMessageWithHistory asks for the answer first
SendBegin(c, streaming) ==
    /\ conversation.calls[c].pc = "idle"
    /\ conversation.sends < MaxSends
    /\ conversation' = [conversation EXCEPT
            !.sends = @ + 1,
            !.calls[c] = [pc |-> IF streaming THEN "saveUser" ELSE "generate",
                          streaming |-> streaming,
                          loaded |-> conversation.messageCount]]

\* ragService.chatWithHistory has returned or thrown, or the stream of
\* chatStreamWithHistory has ended or thrown: a throw ends the call
SendGenerated(c, ok) ==
    /\ conversation.calls[c].pc = "generate"
    /\ conversation' = [conversation EXCEPT
            !.calls[c] = IF ~ok THEN IdleSend
                         ELSE [@ EXCEPT !.pc = IF conversation.calls[c].streaming
                                               THEN "saveAssistant" ELSE "saveUser"]]

\* await chatHistoryRepository.save({ role: 'user', ... })
SendSaveUser(c) ==
    /\ conversation.calls[c].pc = "saveUser"
    /\ conversation' = [conversation EXCEPT
            !.rows = saveRow(@, "user", c),
            !.calls[c].pc = IF conversation.calls[c].streaming THEN "generate"
                            ELSE "saveAssistant"]

\* await chatHistoryRepository.save({ role: 'assistant', ... })
SendSaveAssistant(c) ==
    /\ conversation.calls[c].pc = "saveAssistant"
    /\ conversation' = [conversation EXCEPT
            !.rows = saveRow(@, "assistant", c),
            !.calls[c].pc = "update"]

\* await this.updateConversationMetadata(conversation, ...): the call returns
SendUpdate(c) ==
    /\ conversation.calls[c].pc = "update"
    /\ conversation' = [conversation EXCEPT
            !.messageCount = updateConversationMetadata(@, conversation.calls[c].loaded),
            !.calls[c] = IdleSend]

InitConversation == conversation = NoConversation

InitAuth ==
    /\ tokens = [token \in Tokens |-> NoToken]
    /\ blacklist = [token \in Tokens |-> <<>>]
    /\ lastRequest = NoRequest

InitRag ==
    /\ InitAuth
    /\ InitCompose
    /\ InitConversation
    /\ peer = [sid \in SessionIds |-> NoSession]
    /\ lastOp = NoOp
    /\ ragHasData = <<>>
    /\ globalInstructions = DefaultInstructions
    /\ lastChange = NoChange

(***************************************************************************)
(* Dedup / rerank: RetrievalService.deduplicateAndRerank and               *)
(* RagService.fastDeduplicateAndRerank                                     *)
(***************************************************************************)
\* score += 0.1 for a query word found; scores are counted in tenths
KEYWORD_SCORE == 1
INT32_MAX == 2147483647

\* the conversion of a number to a 32-bit integer done by << and &
ToInt32(x) ==
    IF -INT32_MAX - 1 <= x /\ x <= INT32_MAX THEN x
    ELSE ((x + INT32_MAX + 1) % (2 * INT32_MAX + 2)) - INT32_MAX - 1

\* getContentHash: hash = (hash << 5) - hash + charCode; hash = hash & hash.
\* The key is the decimal text of the hash, one text per number.
RECURSIVE HashFrom(_, _, _)
HashFrom(content, i, hash) ==
    IF i > Len(content) THEN hash
    ELSE HashFrom(content, i + 1, ToInt32(ToInt32(hash * 32) - hash + content[i]))

getContentHash(content) == HashFrom(content, 1, 0)

\* str.split(/\s+/)
RECURSIVE SplitWhitespace(_)
SplitWhitespace(str) ==
    LET spaces == {i \in 1..Len(str) : str[i] \in WhiteSpace}
    IN  IF spaces = {} THEN <<str>>
        ELSE LET i == CHOOSE k \in spaces : \A l \in spaces : k <= l
                 j == CHOOSE k \in i..Len(str) :
                         /\ \A l \in i..k : l \in spaces
                         /\ k + 1 \notin spaces
             IN  <<SubSeq(str, 1, i - 1)>> \o SplitWhitespace(SubSeq(str, j + 1, Len(str)))

\* String.prototype.includes
Includes(str, word) ==
    \E i \in 0..(Len(str) - Len(word)) : SubSeq(str, i + 1, i + Len(word)) = word

\* calculateKeywordScore
RECURSIVE KeywordScoreFrom(_, _, _)
KeywordScoreFrom(contentLower, queryWords, i) ==
    IF i > Len(queryWords) THEN 0
    ELSE (IF Includes(contentLower, queryWords[i]) THEN KEYWORD_SCORE ELSE 0)
         + KeywordScoreFrom(contentLower, queryWords, i + 1)

calculateKeywordScore(content, queryWords) ==
    KeywordScoreFrom(ToLowerCase(content), queryWords, 1)

\* uniqueDocs.set(key, doc): an existing key keeps its place in the Map
uniqueDocsSetAppend(uniqueDocs, key, doc) == Append(uniqueDocs, [key |-> key, doc |-> doc])

uniqueDocsSet(uniqueDocs, key, doc) ==
    IF \E i \in 1..Len(uniqueDocs) : uniqueDocs[i].key = key
    THEN [i \in 1..Len(uniqueDocs) |->
            IF uniqueDocs[i].key = key THEN [key |-> key, doc |-> doc] ELSE uniqueDocs[i]]
    ELSE Append(uniqueDocs, [key |-> key, doc |-> doc])

\* the loop over docs, from document i on
RECURSIVE DedupFrom(_, _, _, _)
DedupFrom(docs, queryWords, i, uniqueDocs) ==
    IF i > Len(docs) THEN uniqueDocs
    ELSE LET doc == docs[i]
             key == getContentHash(doc.content)
             existing == SelectSeq(uniqueDocs, LAMBDA e : e.key = key)
             totalScore == doc.score + calculateKeywordScore(doc.content, queryWords)
             replace ==
                 \/ existing = <<>>
                 \/ existing[1].doc.score
                        + calculateKeywordScore(existing[1].doc.content, queryWords)
                    < totalScore
         IN  DedupFrom(docs, queryWords, i + 1,
                       IF replace
                       THEN uniqueDocsSet(uniqueDocs, key, [doc EXCEPT !.score = totalScore])
                       ELSE uniqueDocs)

\* .sort((a, b) => (b.score || 0) - (a.score || 0)): stable, highest first
SortNothing(docs) == docs

SortByScore(docs) ==
    LET n == Len(docs)
        ahead == [j \in 1..n |->
                    Cardinality({k \in 1..n :
                        \/ docs[k].score > docs[j].score
                        \/ docs[k].score = docs[j].score /\ k < j})] \o <<>>
    IN  [i \in 1..n |-> docs[CHOOSE j \in 1..n : ahead[j] = i - 1]]

\* Array.from(uniqueDocs.values()).sort(...).slice(0, topK)
Rerank(docs, originalQuery, topK) ==
    LET queryWords == SplitWhitespace(ToLowerCase(originalQuery))
        uniqueDocs == DedupFrom(docs, queryWords, 1, <<>>)
        values == [i \in 1..Len(uniqueDocs) |-> uniqueDocs[i].doc]
    IN  Slice(SortByScore(values), topK)

\* rag.topK as the configuration gives it: env is <<>> when RAG_TOP_K is not
\* set, <<k>> when it is set to the number k
ConfiguredTopK(env) == IF env = <<>> THEN DEFAULT_TOP_K ELSE env[1]

\* RetrievalService: this.topK = configService.get('rag.topK') || 5
deduplicateAndRerank(docs, originalQuery, env) ==
    Rerank(docs, originalQuery,
           IF ConfiguredTopK(env) = 0 THEN DEFAULT_TOP_K ELSE ConfiguredTopK(env))

\* RagService: slice(0, configService.get('rag.topK'))
fastDeduplicateAndRerank(docs, originalQuery, env) ==
    Rerank(docs, originalQuery, ConfiguredTopK(env))

\* the inputs of the dedup/rerank behaviours: "Aa" and "BB" have the same
\* content hash
RerankContents == {<<65, 97>>, <<66, 66>>, <<98>>}
RerankScores == {0, 1, 2}
\* "a", "b", "a b", "a a"
RerankQueries == {<<97>>, <<98>>, <<97, 32, 98>>, <<97, 32, 97>>}
TopKEnvs == {<<>>, <<1>>, <<2>>}

\* lists of up to MaxRerankDocs search results, numbered in order
RerankInputs ==
    UNION {[1..n -> RerankContents \X RerankScores] : n \in 0..MaxRerankDocs}

AsDocs(input) ==
    [i \in 1..Len(input) |-> [id |-> i, content |-> input[i][1], score |-> input[i][2]]]

NoRerank ==
    [pc |-> "none", impl |-> "none", docs |-> <<>>, query |-> <<>>, env |-> <<>>,
     out |-> <<>>, again |-> <<>>]

InitRerank == rerank = NoRerank

InitRerankCall ==
    \E input \in RerankInputs, q \in RerankQueries, env \in TopKEnvs,
       impl \in {"retrieval", "rag"} :
        rerank = [NoRerank EXCEPT !.pc = "called", !.impl = impl,
                                  !.docs = AsDocs(input), !.query = q, !.env = env]

RerankCall(impl, docs) ==
    IF impl = "retrieval" THEN deduplicateAndRerank(docs, rerank.query, rerank.env)
    ELSE fastDeduplicateAndRerank(docs, rerank.query, rerank.env)

\* the call returns its output
RerankReturn ==
    /\ rerank.pc = "called"
    /\ rerank' = [rerank EXCEPT !.pc = "returned", !.out = RerankCall(rerank.impl, rerank.docs)]

\* the output is handed to the same operation again, with the same query
RerankAgain ==
    /\ rerank.pc = "returned"
    /\ rerank' = [rerank EXCEPT !.pc = "repeated", !.again = RerankCall(rerank.impl, rerank.out)]

(***************************************************************************)
(* RetrievalService.hybridSearch                                           *)
(***************************************************************************)
NoHybrid ==
    [pc |-> "idle", query |-> <<>>, semantic |-> "idle", keyword |-> "idle",
     vectorDocs |-> <<>>, keywordDocs |-> <<>>, failed |-> {}, result |-> "none",
     out |-> <<>>]

InitHybrid == hybrid = NoHybrid

\* what the vector store returns to a search that succeeds
VectorResults ==
    {<<>>, <<[id |-> 1, content |-> <<65, 97>>, score |-> 1]>>,
     <<[id |-> 3, content |-> <<66, 66>>, score |-> 2],
       [id |-> 1, content |-> <<65, 97>>, score |-> 1]>>}
\* what the keyword index returns to a search that succeeds
KeywordResults ==
    {<<>>, <<[id |-> 2, content |-> <<98>>, score |-> 2]>>,
     <<[id |-> 1, content |-> <<65, 97>>, score |-> 0]>>}

\* the two promises under Promise.all: the first rejection rejects it, the
\* last fulfilment resolves it and the merged list is deduplicated and
\* reranked
HybridSettled(h) ==
    IF h.result # "none" THEN h
    ELSE IF h.semantic = "failed" THEN [h EXCEPT !.result = "raised"]
    ELSE IF h.semantic = "ok" /\ h.keyword = "ok"
         THEN [h EXCEPT !.result = "returned",
                        !.out = deduplicateAndRerank(h.vectorDocs \o h.keywordDocs,
                                                     h.query, <<>>)]
         ELSE h

\* hybridSearch(query): semanticSearch and keywordSearch are started
HybridStart(query) ==
    /\ hybrid.pc = "idle"
    /\ hybrid' = [NoHybrid EXCEPT !.pc = "running", !.query = query,
                                  !.semantic = "embedding", !.keyword = "search"]

\* semanticSearch: await this.llmService.generateEmbedding(query); it throws
\* when the provider fails and when the embedding circuit is open
HybridEmbedded(outcome) ==
    /\ hybrid.semantic = "embedding"
    /\ outcome \in {"ok", "throw", "open"}
    /\ hybrid' = HybridSettled(
          IF outcome = "ok" THEN [hybrid EXCEPT !.semantic = "search"]
          ELSE [hybrid EXCEPT !.semantic = "failed",
                              !.failed = @ \cup {IF outcome = "open" THEN "circuit"
                                                                     ELSE "embedding"}])

\* semanticSearch: return this.vectorDbService.search(embedding, this.topK)
HybridVectorSearched(ok, docs) ==
    /\ hybrid.semantic = "search"
    /\ hybrid' = HybridSettled(
          IF ok THEN [hybrid EXCEPT !.semantic = "ok", !.vectorDocs = docs]
          ELSE [hybrid EXCEPT !.semantic = "failed", !.failed = @ \cup {"vector"}])

\* keywordSearch: ElasticsearchService.search catches its errors and returns []
HybridKeywordSearched(ok, docs) ==
    /\ hybrid.keyword = "search"
    /\ hybrid' = HybridSettled(
          IF ok THEN [hybrid EXCEPT !.keyword = "ok", !.keywordDocs = docs]
          ELSE [hybrid EXCEPT !.keyword = "ok", !.keywordDocs = <<>>,
                              !.failed = @ \cup {"keyword"}])

(***************************************************************************)
(* generateQueryVariations (RagService and RetrievalService)               *)
(***************************************************************************)
NoVariation ==
    [pc |-> "idle", impl |-> "none", query |-> <<>>, answer |-> Text(<<>>), out |-> <<>>]

InitVariation == variation = NoVariation

\* generateQueryVariations(query) up to the await of generateResponse
VariationsCall(impl, query) ==
    /\ variation.pc = "idle"
    /\ variation' = [NoVariation EXCEPT !.pc = "awaiting", !.impl = impl, !.query = query]

\* generateResponse has settled; the variation list is returned
VariationsAnswered(answer) ==
    /\ variation.pc = "awaiting"
    /\ variation' = [variation EXCEPT !.pc = "returned", !.answer = answer,
                                      !.out = generateQueryVariations(variation.query, answer)]

\* Time passes between two events
TickDeltas == {1, RECOVERY_TIMEOUT}

Tick(d, limit) ==
    /\ ticks < limit
    /\ now' = now + d
    /\ ticks' = ticks + 1

InitClock ==
    /\ now = StartTime
    /\ ticks = 0

InitBreaker ==
    /\ circuitBreakers = InitialBreakers
    /\ calls = [s \in Services |-> [i \in Slots |-> "idle"]]
    /\ admitted = 0
    /\ consecFailures = [s \in Services |-> 0]
    /\ lastEvent = [s \in Services |-> "none"]

vars == <<now, ticks, circuitBreakers, calls, admitted, consecFailures, lastEvent,
          vectorStore, keywordStore, relationalStore, tasks, faults,
          writeCalls, writeOk, deleteCalls, hasDataCache, batch,
          responseCache, queryCache, retrievalCache, turns, retrieval,
          pendingCleanups, reads, begun, rerank, hybrid, variation,
          sessions, redis, running, trace, chatHistory,
          peer, lastOp, ragHasData, globalInstructions, lastChange,
          tokens, blacklist, lastRequest, compose, conversation>>

Init ==
    /\ InitClock
    /\ InitBreaker
    /\ InitTraining
    /\ InitCaches
    /\ InitRerank
    /\ InitHybrid
    /\ InitVariation
    /\ InitChat
    /\ InitRag

BreakerTick ==
    \E d \in TickDeltas : Tick(d, MaxTicks) /\ UNCHANGED <<cbVars, trainVars, cacheVars, tailVars>>
BreakerReject == \E s \in Services : CallRejected(s) /\ UNCHANGED <<clockVars, trainVars, cacheVars, tailVars>>
BreakerAdmit ==
    \E s \in Services, i \in Slots : CallAdmitted(s, i) /\ UNCHANGED <<clockVars, trainVars, cacheVars, tailVars>>
BreakerReturn ==
    \E s \in Services, i \in Slots, o \in {"ok", "throw", "malformed"} :
        CallReturn(s, i, o) /\ UNCHANGED <<clockVars, trainVars, cacheVars, tailVars>>

Next ==
    \/ BreakerTick
    \/ BreakerReject
    \/ BreakerAdmit
    \/ BreakerReturn

Spec == Init /\ [][Next]_vars

(***************************************************************************)
(* Training calls, one at a time or overlapping                            *)
(***************************************************************************)
others == <<clockVars, cbVars, cacheVars, tailVars>>

SagaStart == \E id \in DocIds, k \in {"training", "rag"} : TrainStart(id, k) /\ UNCHANGED others
SagaEmbed == \E id \in DocIds, ok \in BOOLEAN : TrainEmbed(id, ok) /\ UNCHANGED others
SagaUpsert == \E id \in DocIds, ok \in BOOLEAN : TrainUpsert(id, ok) /\ UNCHANGED others
SagaIndex == \E id \in DocIds, ok \in BOOLEAN : TrainIndex(id, ok) /\ UNCHANGED others
SagaSave == \E id \in DocIds, ok \in BOOLEAN : TrainSave(id, ok) /\ UNCHANGED others
SagaRollbackVector ==
    \E id \in DocIds, ok \in BOOLEAN : TrainRollbackVector(id, ok) /\ UNCHANGED others
SagaRollbackKeyword ==
    \E id \in DocIds, ok \in BOOLEAN : TrainRollbackKeyword(id, ok) /\ UNCHANGED others
SagaRagEmbed == \E id \in DocIds, ok \in BOOLEAN : RagEmbed(id, ok) /\ UNCHANGED others
SagaRagWrite ==
    \E id \in DocIds, st \in Stores, ok \in BOOLEAN : RagWrite(id, st, ok) /\ UNCHANGED others

TaskSteps ==
    \/ SagaEmbed
    \/ SagaUpsert
    \/ SagaIndex
    \/ SagaSave
    \/ SagaRollbackVector
    \/ SagaRollbackKeyword
    \/ SagaRagEmbed
    \/ SagaRagWrite

NextSaga ==
    \/ SagaStart
    \/ TaskSteps

SpecSaga == Init /\ [][NextSaga]_vars

(***************************************************************************)
(* One trainBatch call                                                     *)
(***************************************************************************)
BatchBegin == \E n \in 0..MaxDocs : BatchStart(n) /\ UNCHANGED others
BatchGroupDone == BatchCollect /\ UNCHANGED others
BatchRagBegin == \E n \in 0..MaxDocs : RagBatchStart(n) /\ UNCHANGED others
BatchRagEmbed == \E id \in DocIds, ok \in BOOLEAN : RagBatchEmbed(id, ok) /\ UNCHANGED others
BatchRagWrite == \E st \in Stores, ok \in BOOLEAN : RagBatchWrite(st, ok) /\ UNCHANGED others

NextBatch ==
    \/ BatchBegin
    \/ BatchGroupDone
    \/ BatchRagBegin
    \/ BatchRagEmbed
    \/ BatchRagWrite
    \/ SagaEmbed
    \/ SagaUpsert
    \/ SagaIndex
    \/ SagaSave
    \/ SagaRollbackVector
    \/ SagaRollbackKeyword

SpecBatch == Init /\ [][NextBatch]_vars

(***************************************************************************)
(* Chat turns and retrieval calls against the caches                       *)
(***************************************************************************)
rest == <<cbVars, trainVars, tailVars>>

\* the message "A"; its cache keys are lower case
Messages == {<<65>>}
CacheTickDeltas == {1, CACHE_TTL - 1}

CacheTick ==
    \E d \in CacheTickDeltas : Tick(d, MaxCacheTicks) /\ UNCHANGED <<rest, cacheVars>>
\* one turn at a time here; overlapping turns are part of SpecCacheSize
CacheTurnBegin ==
    \E id \in {1}, k \in {"chat", "stream"}, m \in Messages :
        TurnBegin(id, k, m, DefaultInstructions) /\ UNCHANGED <<rest, clockVars>>
CacheTurnHasData ==
    \E id \in TurnIds, d \in BOOLEAN : TurnHasData(id, d) /\ UNCHANGED <<rest, clockVars>>
CacheTurnVariations ==
    \E id \in TurnIds, a \in VariationAnswers :
        TurnVariations(id, a) /\ UNCHANGED <<rest, clockVars>>
CacheTurnSearched ==
    \E id \in TurnIds, down \in SUBSET Collaborators :
        TurnSearched(id, down) /\ UNCHANGED <<rest, clockVars>>
CacheTurnGenerated ==
    \E id \in TurnIds, ok \in BOOLEAN :
        TurnGenerated(id, ok, "r1") /\ UNCHANGED <<rest, clockVars>>
CacheCleanupTimer == CleanupTimer /\ UNCHANGED <<rest, clockVars>>
CacheRetrievalBegin == \E q \in Messages : RetrievalBegin(q) /\ UNCHANGED <<rest, clockVars>>
CacheRetrievalVariations ==
    \E a \in VariationAnswers : RetrievalVariations(a) /\ UNCHANGED <<rest, clockVars>>
CacheRetrievalCleanup == RetrievalCleanup /\ UNCHANGED <<rest, clockVars>>

NextCache ==
    \/ CacheTick
    \/ CacheTurnBegin
    \/ CacheTurnHasData
    \/ CacheTurnVariations
    \/ CacheTurnSearched
    \/ CacheTurnGenerated
    \/ CacheCleanupTimer
    \/ CacheRetrievalBegin
    \/ CacheRetrievalVariations
    \/ CacheRetrievalCleanup

SpecCache == Init /\ [][NextCache]_vars

(***************************************************************************)
(* RetrievalService.multiQueryRetrieval for queries that share a cache key *)
(***************************************************************************)
\* the queries "A" and "a"
MultiQueries == {<<65>>, <<97>>}
\* the completion throws, or answers "v", or answers the four lines v w x y
MultiAnswers == {Threw("throw"), Text(<<118>>), Text(<<118, 10, 119, 10, 120, 10, 121>>)}

MultiRetrievalBegin ==
    \E q \in MultiQueries : RetrievalBegin(q) /\ UNCHANGED <<rest, clockVars>>
MultiRetrievalVariations ==
    \E a \in MultiAnswers : RetrievalVariations(a) /\ UNCHANGED <<rest, clockVars>>

NextMulti ==
    \/ CacheTick
    \/ MultiRetrievalBegin
    \/ MultiRetrievalVariations
    \/ CacheRetrievalCleanup

SpecMulti == Init /\ [][NextMulti]_vars

(***************************************************************************)
(* The caches near their size limit                                        *)
(***************************************************************************)
\* the k-th distinct message (a one-character string)
Message(k) == <<1000 + k>>

\* every call brings a message not seen before
NewMessage == Message(Prefill + begun + 1)

\* Prefill distinct messages have been answered, one per millisecond, and
\* the cleanup has run
PrefilledResponses ==
    [k \in 1..Prefill |->
        [key |-> generateCacheKey(Message(k), DefaultInstructions), value |-> "r1",
         timestamp |-> StartTime - (Prefill - k)]]

PrefilledVariations ==
    [k \in 1..Prefill |->
        [key |-> queryCacheKey(Message(k)), value |-> <<Message(k)>>,
         timestamp |-> StartTime - (Prefill - k)]]

InitCacheSize ==
    /\ InitClock
    /\ InitBreaker
    /\ InitTraining
    /\ responseCache = PrefilledResponses
    /\ queryCache = PrefilledVariations
    /\ retrievalCache = PrefilledVariations
    /\ turns = [id \in TurnIds |-> IdleTurn]
    /\ retrieval = IdleRetrieval
    /\ pendingCleanups = 0
    /\ reads = [hit |-> NoRead, miss |-> NoRead]
    /\ begun = 0
    /\ InitRerank
    /\ InitHybrid
    /\ InitVariation
    /\ InitChat
    /\ InitRag

SizeTurnBegin ==
    /\ begun < MaxNewEntries
    /\ \E id \in TurnIds : TurnBegin(id, "chat", NewMessage, DefaultInstructions)
    /\ UNCHANGED <<rest, clockVars>>
SizeRetrievalBegin ==
    /\ begun < MaxNewEntries
    /\ RetrievalBegin(NewMessage)
    /\ UNCHANGED <<rest, clockVars>>

NextCacheSize ==
    \/ SizeTurnBegin
    \/ SizeRetrievalBegin
    \/ CacheTurnHasData
    \/ CacheTurnVariations
    \/ CacheTurnSearched
    \/ CacheTurnGenerated
    \/ CacheCleanupTimer
    \/ CacheRetrievalVariations
    \/ CacheRetrievalCleanup

SpecCacheSize == InitCacheSize /\ [][NextCacheSize]_vars

(***************************************************************************)
(* Dedup / rerank calls                                                    *)
(***************************************************************************)
RerankFirst == RerankReturn /\ UNCHANGED <<clockVars, cbVars, trainVars, cacheVars, hybrid, variation, chatVars, ragVars>>
RerankSecond == RerankAgain /\ UNCHANGED <<clockVars, cbVars, trainVars, cacheVars, hybrid, variation, chatVars, ragVars>>

NextRerank ==
    \/ RerankFirst
    \/ RerankSecond

\* a call with any of the inputs, everything else as constructed
InitRerankSpec ==
    /\ InitClock
    /\ InitBreaker
    /\ InitTraining
    /\ InitCaches
    /\ InitRerankCall
    /\ InitHybrid
    /\ InitVariation
    /\ InitChat
    /\ InitRag

SpecRerank == InitRerankSpec /\ [][NextRerank]_vars

(***************************************************************************)
(* One hybridSearch call                                                   *)
(***************************************************************************)
HybridBegin ==
    \E q \in RerankQueries :
        HybridStart(q) /\ UNCHANGED <<clockVars, cbVars, trainVars, cacheVars, rerank, variation, chatVars, ragVars>>
HybridEmbedding ==
    \E o \in {"ok", "throw", "open"} :
        HybridEmbedded(o) /\ UNCHANGED <<clockVars, cbVars, trainVars, cacheVars, rerank, variation, chatVars, ragVars>>
HybridVector ==
    \E ok \in BOOLEAN, docs \in VectorResults :
        /\ ~ok => docs = <<>>
        /\ HybridVectorSearched(ok, docs)
        /\ UNCHANGED <<clockVars, cbVars, trainVars, cacheVars, rerank, variation, chatVars, ragVars>>
HybridKeyword ==
    \E ok \in BOOLEAN, docs \in KeywordResults :
        /\ ~ok => docs = <<>>
        /\ HybridKeywordSearched(ok, docs)
        /\ UNCHANGED <<clockVars, cbVars, trainVars, cacheVars, rerank, variation, chatVars, ragVars>>

NextHybrid ==
    \/ HybridBegin
    \/ HybridEmbedding
    \/ HybridVector
    \/ HybridKeyword

SpecHybrid == Init /\ [][NextHybrid]_vars

(***************************************************************************)
(* One generateQueryVariations call                                        *)
(***************************************************************************)
\* "a", "v", line break, space
AnswerAlphabet == {97, 118, 10, 32}
\* the texts of up to MaxAnswerLen characters
AnswerTexts == UNION {[1..n -> AnswerAlphabet] : n \in 0..MaxAnswerLen}

VariationsBegin ==
    \E impl \in {"rag", "retrieval"}, q \in RerankQueries :
        VariationsCall(impl, q)
        /\ UNCHANGED <<clockVars, cbVars, trainVars, cacheVars, rerank, hybrid, chatVars, ragVars>>
VariationsEnd ==
    \E a \in {Threw("throw"), Threw("open")} \cup {Text(str) : str \in AnswerTexts} :
        VariationsAnswered(a)
        /\ UNCHANGED <<clockVars, cbVars, trainVars, cacheVars, rerank, hybrid, chatVars, ragVars>>

NextVariations ==
    \/ VariationsBegin
    \/ VariationsEnd

SpecVariations == Init /\ [][NextVariations]_vars

(***************************************************************************)
(* The messages of a turn, over session histories of every length          *)
(***************************************************************************)
composeRest == <<clockVars, cbVars, trainVars, cacheVars, rerank, hybrid, variation,
                 chatVars, peer, lastOp, ragHasData, globalInstructions, lastChange,
                 authVars, conversation>>
\* no context (no indexed documents), or the context "C"
Contexts == {<<>>, <<67>>}

ComposeEarlier ==
    \E role \in {"user", "assistant"} : ComposePush(role) /\ UNCHANGED composeRest
ComposeTurn ==
    \E m \in Messages, c \in Contexts : ComposeChat(m, c) /\ UNCHANGED composeRest

NextCompose ==
    \/ ComposeEarlier
    \/ ComposeTurn

SpecCompose == Init /\ [][NextCompose]_vars

(***************************************************************************)
(* sendMessage calls on one conversation, overlapping or not               *)
(***************************************************************************)
conversationRest ==
    <<clockVars, cbVars, trainVars, cacheVars, rerank, hybrid, variation,
      chatVars, peer, lastOp, ragHasData, globalInstructions, lastChange,
      authVars, compose>>

ConversationSend ==
    \E c \in SendCalls, streaming \in BOOLEAN :
        SendBegin(c, streaming) /\ UNCHANGED conversationRest
ConversationGenerated ==
    \E c \in SendCalls, ok \in BOOLEAN : SendGenerated(c, ok) /\ UNCHANGED conversationRest
ConversationSaveUser == \E c \in SendCalls : SendSaveUser(c) /\ UNCHANGED conversationRest
ConversationSaveAssistant ==
    \E c \in SendCalls : SendSaveAssistant(c) /\ UNCHANGED conversationRest
ConversationUpdate == \E c \in SendCalls : SendUpdate(c) /\ UNCHANGED conversationRest

NextConversation ==
    \/ ConversationSend
    \/ ConversationGenerated
    \/ ConversationSaveUser
    \/ ConversationSaveAssistant
    \/ ConversationUpdate

SpecConversation == Init /\ [][NextConversation]_vars

(***************************************************************************)
(* Chat and chatStream calls on sessions, one after another or overlapping *)
(***************************************************************************)
chatRest == <<cbVars, trainVars, rerank, hybrid, variation, clockVars, ragVars>>

Responses == {"r1", "r2"}
\* the collaborators down during one retrieval
Outages == {{}, {"embedding"}, {"vector"}, {"keyword"}, Collaborators}

\* the session ids a caller can pass: those createSession has returned (chat
\* and chatStream do not return the id of a session they create)
KnownIds ==
    {sid \in SessionIds :
        /\ sessions[sid].held
        /\ \A n \in 1..Len(trace) : ~(trace[n].created /\ trace[n].session = sid)}

SessionCreate == createSession /\ UNCHANGED <<chatRest, cacheVars>>
ChatTick ==
    Tick(CACHE_TTL - 1, MaxChatTicks) /\ UNCHANGED <<cbVars, trainVars, cacheVars, tailVars>>
SessionTurnBegin ==
    \E id \in TurnIds, k \in {"chat", "stream"}, m \in Messages,
       sid \in {NoSessionId} \cup KnownIds :
        /\ Len(trace) < MaxChatCalls
        /\ ChatBegin(id, k, m, sid)
        /\ UNCHANGED chatRest
SessionTurnHasData ==
    \E id \in TurnIds, d \in BOOLEAN : ChatHasData(id, d) /\ UNCHANGED chatRest
SessionTurnVariations ==
    \E id \in TurnIds : ChatVariations(id, Text(<<118>>)) /\ UNCHANGED chatRest
SessionTurnSearched ==
    \E id \in TurnIds, down \in Outages : ChatSearched(id, down) /\ UNCHANGED chatRest
SessionTurnGenerated ==
    \E id \in TurnIds, ok \in BOOLEAN, r \in Responses, chunks \in 0..MaxChunks :
        /\ ~ok => r = "r1"
        /\ chunks > 0 => turns[id].kind = "stream"
        /\ ok => chunks = IF turns[id].kind = "stream" THEN 1 ELSE 0
        /\ ChatGenerated(id, ok, r, chunks, "none")
        /\ UNCHANGED chatRest
SessionCleanupTimer == ChatCleanupTimer /\ UNCHANGED chatRest

NextChat ==
    \/ ChatTick
    \/ SessionCreate
    \/ SessionTurnBegin
    \/ SessionTurnHasData
    \/ SessionTurnVariations
    \/ SessionTurnSearched
    \/ SessionTurnGenerated
    \/ SessionCleanupTimer

SpecChat == Init /\ [][NextChat]_vars

(***************************************************************************)
(* Chat turns whose rows the relational store may refuse                   *)
(***************************************************************************)
PersistTurnGenerated ==
    \E id \in TurnIds, ok \in BOOLEAN, r \in Responses, fails \in DbFailures :
        /\ ~ok => r = "r1" /\ fails = "none"
        /\ ChatGenerated(id, ok, r, IF ok /\ turns[id].kind = "stream" THEN 1 ELSE 0, fails)
        /\ UNCHANGED chatRest

NextPersist ==
    \/ SessionCreate
    \/ SessionTurnBegin
    \/ SessionTurnHasData
    \/ SessionTurnVariations
    \/ SessionTurnSearched
    \/ PersistTurnGenerated
    \/ SessionCleanupTimer

SpecPersist == Init /\ [][NextPersist]_vars

(***************************************************************************)
(* Sessions: two instances on one shared store, an hour passing            *)
(***************************************************************************)
MaxSessTicks == 2
MaxSessionOps == 1

\* the ids a caller holds: those createSession has returned
GivenIds ==
    {sid \in SessionIds :
        /\ sessions[sid].created \/ peer[sid].created
        /\ \A n \in 1..Len(trace) : ~(trace[n].created /\ trace[n].session = sid)}

sessRest == <<cbVars, trainVars, rerank, hybrid, variation, clockVars,
              ragHasData, globalInstructions, lastChange, authVars, lateVars>>

\* more than half of SESSION_MAX_AGE: one tick stays within the hour, two
\* ticks pass it
HalfHour == SESSION_MAX_AGE \div 2 + 1

SessTick ==
    Tick(HalfHour, MaxSessTicks) /\ UNCHANGED <<cbVars, trainVars, cacheVars, tailVars>>
\* one turn at a time on this instance, nothing indexed
SessTurnBegin ==
    \E k \in {"chat", "stream"}, m \in Messages, sid \in {NoSessionId} \cup GivenIds :
        /\ Len(trace) < MaxChatCalls
        /\ ChatBegin(1, k, m, sid)
        /\ UNCHANGED chatRest
SessTurnHasData == \E id \in TurnIds : ChatHasData(id, FALSE) /\ UNCHANGED chatRest
SessTurnGenerated ==
    \E id \in TurnIds, ok \in BOOLEAN :
        /\ ChatGenerated(id, ok, "r1", IF ok /\ turns[id].kind = "stream" THEN 1 ELSE 0,
                         "none")
        /\ UNCHANGED chatRest
SessPeerCreate == PeerCreate /\ UNCHANGED <<sessRest, lastOp, cacheVars>>
SessPeerTurn ==
    \E m \in Messages, sid \in GivenIds :
        /\ Len(trace) < MaxChatCalls
        /\ PeerTurn(sid, m, "r2")
        /\ UNCHANGED <<sessRest, lastOp>>
SessClear ==
    \E sid \in GivenIds :
        /\ lastOp.seq < MaxSessionOps
        /\ clearSession(sid)
        /\ UNCHANGED <<sessRest, cacheVars, running, trace, chatHistory, peer>>
SessInfo ==
    \E sid \in GivenIds :
        /\ lastOp.seq < MaxSessionOps
        /\ getSessionInfo(sid)
        /\ UNCHANGED <<sessRest, cacheVars, running, trace, chatHistory, peer>>
SessDelete ==
    \E sid \in GivenIds :
        /\ lastOp.seq < MaxSessionOps
        /\ deleteSession(sid)
        /\ UNCHANGED <<sessRest, cacheVars, running, trace, chatHistory, peer>>

NextSessions ==
    \/ SessTick
    \/ SessionCreate
    \/ SessTurnBegin
    \/ SessTurnHasData
    \/ SessTurnGenerated
    \/ SessionCleanupTimer
    \/ SessPeerCreate
    \/ SessPeerTurn
    \/ SessClear
    \/ SessInfo
    \/ SessDelete

SpecSessions == Init /\ [][NextSessions]_vars

(***************************************************************************)
(* The sweep of the local map, at and past the hour                        *)
(***************************************************************************)
\* half an hour and half an hour plus 1 ms: two steps of the clock make
\* exactly an hour, or more, three make more
SweepTickDeltas == {SESSION_MAX_AGE \div 2, HalfHour}
MaxSweepTicks == 3

SweepTick ==
    \E d \in SweepTickDeltas :
        Tick(d, MaxSweepTicks) /\ UNCHANGED <<cbVars, trainVars, cacheVars, tailVars>>

NextSweep ==
    \/ SweepTick
    \/ SessionCreate
    \/ SessTurnBegin
    \/ SessTurnHasData
    \/ SessTurnGenerated
    \/ SessionCleanupTimer

SpecSweep == Init /\ [][NextSweep]_vars

(***************************************************************************)
(* chatStream turns the consumer abandons                                  *)
(***************************************************************************)
AbandonGenerated == \E id \in TurnIds : ChatAbandoned(id) /\ UNCHANGED chatRest
AbandonCached == ChatCachedAbandoned /\ UNCHANGED <<chatRest, cacheVars>>

NextAbandon ==
    \/ SessTick
    \/ SessionCreate
    \/ SessTurnBegin
    \/ SessTurnHasData
    \/ SessTurnGenerated
    \/ SessionCleanupTimer
    \/ AbandonGenerated
    \/ AbandonCached

SpecAbandon == Init /\ [][NextAbandon]_vars

(***************************************************************************)
(* Access tokens: login, logout, requests to protected routes              *)
(***************************************************************************)
MaxAuthTicks == 6
MaxRequests == 3
\* the milliseconds of one step of the clock
AuthTickMs == 500

authRest == <<cbVars, trainVars, cacheVars, rerank, hybrid, variation, chatVars,
              peer, lastOp, ragHasData, globalInstructions, lastChange, lateVars>>

AuthTick ==
    Tick(AuthTickMs, MaxAuthTicks) /\ UNCHANGED <<cbVars, trainVars, cacheVars, tailVars>>
AuthLogin == \E token \in Tokens : login(token) /\ UNCHANGED <<authRest, clockVars>>
AuthLogout ==
    \E token \in Tokens, getOk \in BOOLEAN, setOk \in BOOLEAN :
        logout(token, getOk, setOk) /\ UNCHANGED <<authRest, clockVars>>
AuthRequest ==
    \E token \in Tokens, getOk \in BOOLEAN :
        /\ lastRequest.seq < MaxRequests
        /\ request(token, getOk)
        /\ UNCHANGED <<authRest, clockVars>>

NextAuth ==
    \/ AuthTick
    \/ AuthLogin
    \/ AuthLogout
    \/ AuthRequest

SpecAuth == Init /\ [][NextAuth]_vars

(***************************************************************************)
(* Training, instruction updates and chat turns on one instance            *)
(***************************************************************************)
MaxFreshTicks == 1
MaxFreshTrainings == 1
MaxUpdates == 1
\* the instructions an administrator can set
Instructions == {DefaultInstructions, <<66, 101>>}

freshRest == <<cbVars, rerank, hybrid, variation, clockVars, authVars, lateVars>>

\* a step of a training call: the call that ends with success is a change
\* of the training data
Trained == \E id \in DocIds : tasks[id].pc # "done" /\ tasks'[id].pc = "done"
TrainingStep ==
    /\ lastChange' = IF Trained THEN Changed(TRUE) ELSE lastChange
    /\ UNCHANGED <<freshRest, cacheVars, chatVars, peer, lastOp, ragHasData, globalInstructions>>

FreshTrainStart ==
    \E id \in 1..MaxFreshTrainings, k \in {"training", "rag"} :
        TrainStart(id, k) /\ TrainingStep
FreshEmbed == \E id \in DocIds, ok \in BOOLEAN : TrainEmbed(id, ok) /\ TrainingStep
FreshUpsert == \E id \in DocIds, ok \in BOOLEAN : TrainUpsert(id, ok) /\ TrainingStep
FreshIndex == \E id \in DocIds, ok \in BOOLEAN : TrainIndex(id, ok) /\ TrainingStep
FreshSave == \E id \in DocIds, ok \in BOOLEAN : TrainSave(id, ok) /\ TrainingStep
FreshRollbackVector ==
    \E id \in DocIds, ok \in BOOLEAN : TrainRollbackVector(id, ok) /\ TrainingStep
FreshRollbackKeyword ==
    \E id \in DocIds, ok \in BOOLEAN : TrainRollbackKeyword(id, ok) /\ TrainingStep
FreshRagEmbed == \E id \in DocIds, ok \in BOOLEAN : RagEmbed(id, ok) /\ TrainingStep
FreshRagWrite ==
    \E id \in DocIds, st \in Stores, ok \in BOOLEAN : RagWrite(id, st, ok) /\ TrainingStep

FreshUpdateInstructions ==
    \E instructions \in Instructions \ {globalInstructions} :
        /\ lastChange.updates < MaxUpdates
        /\ updateInstructions(instructions)
        /\ lastChange' = [Changed(FALSE) EXCEPT !.updates = @ + 1]
        /\ UNCHANGED <<freshRest, trainVars, cacheVars, chatVars, peer, lastOp, ragHasData>>

FreshTick ==
    /\ Tick(HAS_DATA_CACHE_TTL, MaxFreshTicks)
    /\ UNCHANGED <<cbVars, trainVars, cacheVars, tailVars>>
\* one turn at a time, each on a session of its own
FreshTurnBegin ==
    \E k \in {"chat", "stream"}, m \in Messages :
        /\ Len(trace) < MaxChatCalls
        /\ ChatBegin(1, k, m, NoSessionId)
        /\ UNCHANGED chatRest
\* const hasIndexedData = await this.hasIndexedDocuments()
FreshTurnHasData ==
    \E id \in TurnIds :
        LET probe == hasIndexedDocuments(ragHasData, relationalStore # {}, now)
        IN  /\ ChatHasData(id, probe.hasData)
            /\ ragHasData' = probe.cache
            /\ UNCHANGED <<freshRest, trainVars, peer, lastOp, globalInstructions, lastChange>>
FreshTurnVariations ==
    \E id \in TurnIds :
        /\ ChatVariations(id, Text(<<118>>))
        /\ lastChange' = Rewritten("query", queryCacheKey(turns[id].message))
        /\ UNCHANGED <<freshRest, trainVars, peer, lastOp, ragHasData, globalInstructions>>
FreshTurnSearched == \E id \in TurnIds : ChatSearched(id, {}) /\ UNCHANGED chatRest
FreshTurnGenerated ==
    \E id \in TurnIds :
        /\ ChatGenerated(id, TRUE, "r1", IF turns[id].kind = "stream" THEN 1 ELSE 0, "none")
        /\ lastChange' = Rewritten("response", turns[id].key)
        /\ UNCHANGED <<freshRest, trainVars, peer, lastOp, ragHasData, globalInstructions>>
FreshCleanupTimer == ChatCleanupTimer /\ UNCHANGED chatRest

FreshTraining ==
    \/ FreshTrainStart
    \/ FreshEmbed
    \/ FreshUpsert
    \/ FreshIndex
    \/ FreshSave
    \/ FreshRollbackVector
    \/ FreshRollbackKeyword
    \/ FreshRagEmbed
    \/ FreshRagWrite

NextFresh ==
    \/ FreshTraining
    \/ FreshUpdateInstructions
    \/ FreshTick
    \/ FreshTurnBegin
    \/ FreshTurnHasData
    \/ FreshTurnVariations
    \/ FreshTurnSearched
    \/ FreshTurnGenerated
    \/ FreshCleanupTimer

SpecFresh == Init /\ [][NextFresh]_vars

(***************************************************************************)
(* Circuit breaker: properties                                             *)
(***************************************************************************)
\* A step that hands a call of service s to the provider
Invokes(s) == \E i \in Slots : calls[s][i] = "idle" /\ calls'[s][i] # "idle"

C2_SingleProbe ==
    [][\A s \in Services :
          (\E i \in Slots : calls[s][i] = "probe") => ~Invokes(s)]_vars

\* C3: the probe's outcome decides the circuit: right after a successful probe
\* the circuit is closed with no failure counted, right after a failed probe
\* the circuit is open.
C3_ProbeDecides ==
    \A s \in Services :
        /\ lastEvent[s] = "probe_success"
              => (~circuitBreakers[s].isOpen /\ circuitBreakers[s].failures = 0)
        /\ lastEvent[s] = "probe_failure" => circuitBreakers[s].isOpen

\* C4: an open circuit has counted at least FAILURE_THRESHOLD failures.
C4_OpenImpliesThreshold ==
    \A s \in Services :
        circuitBreakers[s].isOpen => circuitBreakers[s].failures >= FAILURE_THRESHOLD

\* a circuit is open
C4_Witness == \E s \in Services : circuitBreakers[s].isOpen

\* C29: a successful provider call leaves the provider's failure count at 0
\* and its circuit closed, and while fewer than FAILURE_THRESHOLD failures
\* have been recorded since the most recent success the circuit is closed.
C29_SuccessResets ==
    \A s \in Services :
        /\ lastEvent[s] \in {"success", "probe_success"}
              => (circuitBreakers[s].failures = 0 /\ ~circuitBreakers[s].isOpen)
        /\ consecFailures[s] < FAILURE_THRESHOLD => ~circuitBreakers[s].isOpen

\* the circuit had opened and the probe after the recovery time succeeded
C29_Witness ==
    \E s \in Services :
        /\ lastEvent[s] = "probe_success"
        /\ consecFailures[s] = 0
        /\ circuitBreakers[s].lastFailure > 0
        /\ ~circuitBreakers[s].isOpen

(***************************************************************************)
(* Training saga: properties                                               *)
(***************************************************************************)
Holds(id) ==
    {s \in Stores : id \in (CASE s = "vector" -> vectorStore
                              [] s = "keyword" -> keywordStore
                              [] s = "relational" -> relationalStore)}

Failed(id) == tasks[id].kind = "training" /\ tasks[id].pc = "raised"

\* C5: in TrainingService.trainWithData, whichever step throws: a compensating
\* delete is issued at most once per store and only against a store whose
\* write had succeeded; when the call has raised, exactly one delete has been
\* issued against each store whose write succeeded; and no store after the
\* failing step in the order vector, keyword, relational received a write.
C5_SagaCompensation ==
    \A id \in DocIds :
        tasks[id].kind = "training" =>
            /\ \A s \in Stores :
                  /\ deleteCalls[s][id] <= 1
                  /\ deleteCalls[s][id] = 1 => id \in writeOk[s]
            /\ Failed(id) =>
                  \A s \in Stores :
                      deleteCalls[s][id] = IF id \in writeOk[s] THEN 1 ELSE 0
            /\ tasks[id].error = "embed" =>
                  /\ \A s \in Stores : id \notin writeCalls[s]
                  /\ \A s \in Stores : deleteCalls[s][id] = 0
            /\ tasks[id].error = "vector" =>
                  id \notin writeCalls["keyword"] \cup writeCalls["relational"]
            /\ tasks[id].error = "keyword" => id \notin writeCalls["relational"]

\* the vector write succeeded, the keyword write threw, the call has raised
C5_Witness ==
    \E id \in DocIds :
        /\ Failed(id)
        /\ tasks[id].error = "keyword"
        /\ id \in writeOk["vector"]
        /\ deleteCalls["vector"][id] = 1

\* C6: when a training step throws, the call raises that step's error, also
\* when compensating deletes fail; a failed vector-store delete does not keep
\* the keyword-index delete from being issued.
C6_OriginalErrorReraised ==
    \A id \in DocIds :
        Failed(id) =>
            /\ tasks[id].error \in {"embed", "vector", "keyword", "relational"}
            /\ tasks[id].raisedErr = tasks[id].error
            /\ id \in writeOk["keyword"] => deleteCalls["keyword"][id] = 1

\* the save threw, the vector-store delete failed, the call has raised
C6_Witness ==
    \E id \in DocIds :
        /\ Failed(id)
        /\ tasks[id].error = "relational"
        /\ "vector" \in tasks[id].rollbackFailed
        /\ deleteCalls["keyword"][id] = 1

\* C7: when the operation behind the train endpoint (RagService.trainWithData)
\* has raised because a store write failed, and all its writes have settled,
\* no store holds a document under the id generated for that call.
C7_NoPartialState ==
    \A id \in DocIds :
        (/\ tasks[id].kind = "rag"
         /\ tasks[id].pc = "raised"
         /\ tasks[id].error \in Stores
         /\ \A s \in Stores : tasks[id].w[s] # "pending")
        => Holds(id) = {}

(***************************************************************************)
(* trainBatch: properties                                                  *)
(***************************************************************************)
\* C8: trainBatch never raises because an item failed; once it has finished
\* every item was attempted, and it returns counts with success + failed = n,
\* success being the number of items whose training completed.
C8_AllSettled ==
    /\ batch.result # "raised"
    /\ batch.result = "returned" =>
          /\ batch.counts
          /\ batch.success + batch.failed = batch.n
          /\ batch.success = Cardinality({id \in 1..batch.n : tasks[id].pc = "done"})
          /\ \A id \in 1..batch.n : tasks[id].pc # "idle"

\* the trainWithData calls of TrainingService.trainBatch started, and those
\* started and neither fulfilled nor rejected
StartedItems == {id \in DocIds : tasks[id].pc # "idle"}
RunningItems == {id \in StartedItems : tasks[id].pc \notin {"done", "raised"}}
\* the number of the group of 5 consecutive documents that holds document id
GroupOf(id) == (id - 1) \div 5

\* C34: TrainingService.trainBatch runs at most 5 trainWithData calls at a
\* time; the items of a group are started only after every item of the
\* groups before it has fulfilled or rejected; the groups are the
\* consecutive runs of 5 documents in input order, started whole
C34_GroupsOfFive ==
    batch.kind = "training" =>
        /\ Cardinality(RunningItems) <= 5
        /\ \A id \in StartedItems, j \in 1..batch.n :
              GroupOf(j) < GroupOf(id) => tasks[j].pc \in {"done", "raised"}
        /\ \A id \in StartedItems, j \in 1..batch.n :
              GroupOf(j) = GroupOf(id) => j \in StartedItems
        /\ StartedItems \subseteq 1..batch.n

\* the second group runs, after a first group with a rejected and a
\* fulfilled call
C34_Witness ==
    /\ batch.kind = "training" /\ batch.n = 7
    /\ 6 \in RunningItems /\ 7 \in StartedItems
    /\ \E j, k \in 1..5 : tasks[j].pc = "raised" /\ tasks[k].pc = "done"

(***************************************************************************)
(* Caches: properties                                                      *)
(***************************************************************************)
\* C9: for the response cache and both query-variation caches, a lookup that
\* finds an entry at most CACHE_TTL - 1 ms old uses it, a lookup that finds
\* an entry CACHE_TTL + 1 ms old or older treats it as a miss, and no entry
\* of age CACHE_TTL or more is ever served.
C9_CacheFreshness ==
    /\ reads.hit # NoRead => reads.hit.age < CACHE_TTL
    /\ reads.miss # NoRead => reads.miss.age > CACHE_TTL - 1

\* the same cache has been read at age CACHE_TTL - 1 (hit) and at age
\* CACHE_TTL + 1 (entry still stored, miss)
C9_Witness ==
    \E c \in {"response", "query", "retrieval"} :
        /\ reads.hit = [cache |-> c, age |-> CACHE_TTL - 1]
        /\ reads.miss = [cache |-> c, age |-> CACHE_TTL + 1]

\* C10: neither the response cache nor a query-variation cache ever holds
\* more than MAX_CACHE_SIZE entries.
C10_CacheSizeLimit ==
    /\ Len(responseCache) <= MAX_CACHE_SIZE
    /\ Len(queryCache) <= MAX_CACHE_SIZE
    /\ Len(retrievalCache) <= MAX_CACHE_SIZE

(***************************************************************************)
(* Dedup / rerank: properties                                              *)
(***************************************************************************)
Returned == rerank.pc \in {"returned", "repeated"}

DistinctKeys(docs) ==
    \A i, j \in 1..Len(docs) :
        getContentHash(docs[i].content) = getContentHash(docs[j].content) => i = j

\* providerScore + keywordScore of an input candidate
TotalScore(doc) ==
    doc.score + calculateKeywordScore(doc.content, SplitWhitespace(ToLowerCase(rerank.query)))

\* C11: the output of dedup/rerank has at most topK entries (the configured
\* value, DEFAULT_TOP_K when none is configured) and no two entries with the
\* same content hash.
C11_AtMostTopKDistinct ==
    Returned =>
        /\ Len(rerank.out) <= ConfiguredTopK(rerank.env)
        /\ DistinctKeys(rerank.out)

\* two candidates shared a key and the output was cut to topK entries
C11_Witness ==
    /\ Returned
    /\ ~DistinctKeys(rerank.docs)
    /\ Len(rerank.out) = ConfiguredTopK(rerank.env)
    /\ Len(rerank.docs) > Len(rerank.out) + 1

\* C12: dedup/rerank applied to its own output, with the same query, returns
\* the same documents in the same order.
C12_Idempotent ==
    rerank.pc = "repeated" =>
        [i \in 1..Len(rerank.again) |-> rerank.again[i].id]
            = [i \in 1..Len(rerank.out) |-> rerank.out[i].id]

\* C13: every entry of the output carries the highest totalScore of the input
\* candidates that have its dedup key.
C13_KeepsHighestTotal ==
    Returned =>
        \A i \in 1..Len(rerank.out) :
            LET key == getContentHash(rerank.out[i].content)
                same == {j \in 1..Len(rerank.docs) :
                            getContentHash(rerank.docs[j].content) = key}
            IN  /\ \E j \in same : rerank.out[i].score = TotalScore(rerank.docs[j])
                /\ \A j \in same : rerank.out[i].score >= TotalScore(rerank.docs[j])

\* the candidates the dedup loop leaves, each with its totalScore
Deduplicated ==
    LET uniqueDocs == DedupFrom(rerank.docs, SplitWhitespace(ToLowerCase(rerank.query)),
                                1, <<>>)
    IN  {uniqueDocs[i].doc : i \in 1..Len(uniqueDocs)}

\* C31: the output of dedup/rerank is sorted by score, highest first, and no
\* deduplicated candidate left out has a higher totalScore than a candidate
\* returned
C31_TopKByTotalScore ==
    Returned =>
        /\ \A i \in 1..(Len(rerank.out) - 1) : rerank.out[i].score >= rerank.out[i + 1].score
        /\ \A left \in Deduplicated :
              (\A i \in 1..Len(rerank.out) : rerank.out[i].id # left.id)
                  => \A i \in 1..Len(rerank.out) : left.score <= rerank.out[i].score

\* the candidate with the higher totalScore came later and the other one was
\* cut off
C31_Witness ==
    /\ Returned
    /\ Len(rerank.out) = 1
    /\ Cardinality(Deduplicated) = 2
    /\ \E left \in Deduplicated :
          left.id < rerank.out[1].id /\ left.score < rerank.out[1].score

\* the distinct terms of the query that occur in the lower-cased content
MatchedTerms(content) ==
    LET queryWords == SplitWhitespace(ToLowerCase(rerank.query))
    IN  {queryWords[k] : k \in {l \in 1..Len(queryWords) :
                                    Includes(ToLowerCase(content), queryWords[l])}}

\* C30: every entry of the output carries totalScore = providerScore +
\* keywordScore of the candidate it was made from, keywordScore being
\* KEYWORD_SCORE times the number of distinct query terms that occur in the
\* lower-cased content (a term repeated in the query counts once).
C30_KeywordScoreDistinctTerms ==
    Returned =>
        \A i \in 1..Len(rerank.out) :
            rerank.out[i].score =
                rerank.docs[rerank.out[i].id].score
                    + KEYWORD_SCORE * Cardinality(MatchedTerms(rerank.out[i].content))

(***************************************************************************)
(* hybridSearch: properties                                                *)
(***************************************************************************)
SemanticFailed == hybrid.failed \cap {"embedding", "circuit", "vector"} # {}
KeywordFailed == "keyword" \in hybrid.failed
BothSettled == hybrid.semantic \in {"ok", "failed"} /\ hybrid.keyword = "ok"

\* C14: when both branches of hybridSearch have settled and exactly one of
\* them failed, hybridSearch has returned (not raised) the deduplicated,
\* reranked results of the other branch.
C14_BranchesIsolated ==
    (BothSettled /\ SemanticFailed # KeywordFailed) =>
        /\ hybrid.result = "returned"
        /\ hybrid.out =
              deduplicateAndRerank(IF SemanticFailed THEN hybrid.keywordDocs
                                                     ELSE hybrid.vectorDocs,
                                   hybrid.query, <<>>)

(***************************************************************************)
(* Query variations: properties                                            *)
(***************************************************************************)
\* the completion gave nothing to use: the call threw, the circuit was open,
\* or the text has no character other than white space
NothingUsable(answer) ==
    \/ answer.kind \in {"throw", "open"}
    \/ \A i \in 1..Len(answer.text) : answer.text[i] \in WhiteSpace

Calls == 1..Len(trace)

\* the entries call n has pushed to the history of its session
EntriesOf(n) == SelectSeq(sessions[trace[n].session].history, LAMBDA e : e.turn = n)

UserEntry(n) == [role |-> "user", content |-> trace[n].message, turn |-> n]
AssistantEntry(n) == [role |-> "assistant", content |-> trace[n].answer, turn |-> n]

\* C15: a retrieval outage never aborts the turn: when data is indexed and
\* the embedding provider, the vector store and/or the keyword index fail
\* during a turn, chat and chatStream go on to the completion provider
\* instead of raising because of the retrieval.
C15_OutageNeverAborts ==
    \A n \in Calls :
        (trace[n].hasData = "yes" /\ trace[n].outage) => trace[n].failedAt # "retrieval"

\* C17: a chat call given no session id while no data is indexed, once it has
\* returned, has created a new session, has called none of the embedding
\* provider, the vector store and the keyword index, has called the
\* completion provider once and returned its answer, and the history of the
\* session is exactly the user message followed by the assistant answer.
C17_ChatWithoutData ==
    \A n \in Calls :
        (/\ trace[n].kind = "chat"
         /\ trace[n].given = NoSessionId
         /\ trace[n].hasData = "no"
         /\ trace[n].result = "returned")
        => /\ trace[n].created
           /\ sessions[trace[n].session].held
           /\ trace[n].called = {}
           /\ trace[n].completions = 1
           /\ trace[n].answer \in Responses
           /\ sessions[trace[n].session].history = <<UserEntry(n), AssistantEntry(n)>>

\* a chat call with no session id and no data has returned "r2"
C17_Witness ==
    \E n \in Calls :
        /\ trace[n].kind = "chat"
        /\ trace[n].given = NoSessionId
        /\ trace[n].hasData = "no"
        /\ trace[n].result = "returned"
        /\ trace[n].answer = "r2"
        /\ Len(sessions[trace[n].session].history) = 2

\* call i generated its answer and had returned when call n, a call with the
\* same message, began
Answered(i, n) ==
    /\ i \in trace[n].settled
    /\ trace[i].message = trace[n].message
    /\ trace[i].result = "returned" /\ ~trace[i].cached

\* both are chat calls and n began less than CACHE_TTL after i began
Repeats(i, n) ==
    /\ Answered(i, n)
    /\ trace[i].kind = "chat" /\ trace[n].kind = "chat"
    /\ trace[n].at - trace[i].at < CACHE_TTL

\* C18: of two chat calls with the same instructions and message less than 5
\* minutes apart, the second returns the answer generated for that message
\* without calling the completion provider or any retrieval collaborator,
\* pushes exactly two entries (user, assistant) to the history of its
\* session, and the session is persisted with them.
C18_SecondCallFromCache ==
    \A n \in Calls :
        (\E i \in Calls : Repeats(i, n))
        => /\ trace[n].cached
           /\ trace[n].result = "returned"
           /\ \E i \in Calls : Answered(i, n) /\ trace[n].answer = trace[i].answer
           /\ trace[n].completions = 0
           /\ trace[n].called = {}
           /\ trace[n].hasData = "unknown"
           /\ EntriesOf(n) = <<UserEntry(n), AssistantEntry(n)>>
           /\ redis[trace[n].session] # <<>>
           /\ SelectSeq(redis[trace[n].session][1].value.history, LAMBDA e : e.turn = n)
                 = <<UserEntry(n), AssistantEntry(n)>>

\* the second call came CACHE_TTL - 1 after the first and ran on the same
\* session
C18_Witness ==
    \E n \in Calls : \E i \in Calls :
        /\ Repeats(i, n)
        /\ trace[n].at - trace[i].at = CACHE_TTL - 1
        /\ trace[n].session = trace[i].session
        /\ trace[n].cached
        /\ trace[n].answer = "r2"

\* C19: when generation raises during a turn (for chatStream also after
\* chunks were yielded), the call raises, the step writes nothing to the
\* response cache, and the turn has pushed to the history of its session the
\* user message and nothing else.
C19_GenerationFailure ==
    [][\A n \in Calls :
          (trace[n].failedAt = "none" /\ trace'[n].failedAt = "generation")
          => /\ trace'[n].result = "raised"
             /\ responseCache' = responseCache
             /\ sessions'[trace[n].session].history = sessions[trace[n].session].history
             /\ EntriesOf(n) = <<UserEntry(n)>>]_vars

\* a chatStream call has raised after a chunk, its session holding the user
\* message only
C19_Witness ==
    \E n \in Calls :
        /\ trace[n].failedAt = "generation"
        /\ trace[n].kind = "stream"
        /\ trace[n].chunks > 0
        /\ trace[n].result = "raised"
        /\ sessions[trace[n].session].history = <<UserEntry(n)>>

\* C20: the entries of a session's history are in the order in which their
\* calls were made: no entry of a later call precedes an entry of an earlier
\* call, also when the later call was made while the earlier was generating.
C20_HistoryInSubmissionOrder ==
    \A sid \in SessionIds :
        \A p, q \in 1..Len(sessions[sid].history) :
            p < q => sessions[sid].history[p].turn <= sessions[sid].history[q].turn

(***************************************************************************)
(* Training, instruction updates and chat: properties                      *)
(***************************************************************************)
\* the first call begun after the last successful training call
AfterTraining(n) == lastChange.trainedAt >= 0 /\ n = lastChange.trainedAt + 1

\* C25: the first chat or chatStream turn after a successful training call
\* that asks whether anything is indexed does not reuse a cached 'no data':
\* it finds data and runs retrieval
C25_TrainingInvalidatesHasData ==
    \A n \in Calls :
        (AfterTraining(n) /\ trace[n].hasData # "unknown") => trace[n].hasData = "yes"

\* the call begun in this step, if one is
Begins(n) == n = Len(trace) + 1 /\ Len(trace') = n

\* C26: after an instruction update or a successful training call no chat
\* turn is answered from a response-cache entry, or searched with query
\* variations, written before it
C26_ChangesClearCaches ==
    [][/\ \A n \in 1..MaxChatCalls :
            (Begins(n) /\ trace'[n].cached)
                => generateCacheKey(trace'[n].message,
                                    sessions'[trace'[n].session].instructions)
                       \notin lastChange.response
       /\ \A id \in TurnIds :
            (turns[id].pc = "hasData" /\ turns'[id].pc = "search"
                /\ turns[id].kind = "chat")
                => queryCacheKey(turns[id].message) \notin lastChange.query]_vars
(***************************************************************************)
(* The rows of a turn: properties                                          *)
(***************************************************************************)
\* turn id ends in this step, its completion generated and the write of its
\* rows failed
EndsWithDbFailure(id) ==
    /\ turns[id].pc = "generate" /\ turns'[id].pc = "idle"
    /\ trace'[running[id]].dbFailed

\* C27: a turn whose rows the relational store refuses returns its answer
\* (chatStream: completes its stream) and leaves the response cache, the
\* session history and the persisted session as a turn whose rows were saved
C27_DbFailureHarmless ==
    [][\A id \in TurnIds :
          EndsWithDbFailure(id) =>
              LET n == running[id]
                  sid == trace[n].session
                  answer == trace'[n].answer
              IN  /\ trace'[n].result = "returned"
                  /\ answer \in Responses
                  /\ responseCache' = CacheSet(responseCache, turns[id].key, answer, now)
                  /\ sessions'[sid].history = push(sessions[sid].history, "assistant", answer, n)
                  /\ RedisGet(redis', sid, now) = <<Stored(sessions'[sid])>>
                  /\ running'[id] = 0]_vars

C27_Witness ==
    \E n \in Calls, m \in Calls :
        /\ trace[n].kind = "chat" /\ trace[m].kind = "stream"
        /\ trace[n].dbFailed /\ trace[m].dbFailed
        /\ trace[n].result = "returned" /\ trace[m].result = "returned"
        /\ Len(chatHistory) < 4
(***************************************************************************)
(* Sessions: properties                                                    *)
(***************************************************************************)
\* the turns whose answer is in the history persisted for sid
PersistedTurns(store, sid) ==
    IF RedisGet(store, sid, now) = <<>> THEN {}
    ELSE LET history == RedisGet(store, sid, now)[1].history
         IN  {history[i].turn : i \in {j \in 1..Len(history) : history[j].role = "assistant"}}

\* call n returns in this step
Ends(n) ==
    /\ n <= Len(trace') /\ trace'[n].result = "returned"
    /\ n > Len(trace) \/ trace[n].result = "running"

\* C21: with two instances on one shared store no completed turn is lost:
\* the session persisted at the end of a turn holds every turn persisted for
\* it that had ended when the turn began
C21_NoTurnLostAcrossInstances ==
    [][\A n \in 1..MaxLookups :
          Ends(n) =>
              (PersistedTurns(redis, trace'[n].session) \cap trace'[n].settled)
                  \subseteq PersistedTurns(redis', trace'[n].session)]_vars

\* the history without the entries of turn n
BeforeTurn(history, n) == SelectSeq(history, LAMBDA e : e.turn # n)

\* C22: getOrCreateSession reads the local map, then the shared store, then
\* creates: a session of the local map is returned touched, without a read
\* of the shared store; else the session of the shared store is returned
\* and put in the local map; else (no id, or an id in neither) a new empty
\* session is written to both under a new id
C22_ReadPath ==
    [][\A n \in 1..MaxLookups :
          (Begins(n) /\ trace'[n].kind # "peer") =>
              LET sid == trace'[n].given
                  target == trace'[n].session
                  session == sessions'[target]
                  stored == RedisGet(redis, sid, now)
              IN  /\ session.held /\ session.lastActivity = now
                  /\ Held(sessions, sid) =>
                        /\ target = sid /\ trace'[n].source = "local"
                        /\ BeforeTurn(session.history, n) = sessions[sid].history
                        /\ session.instructions = sessions[sid].instructions
                        /\ session.createdAt = sessions[sid].createdAt
                  /\ (~Held(sessions, sid) /\ stored # <<>>) =>
                        /\ target = sid /\ trace'[n].source = "durable"
                        /\ BeforeTurn(session.history, n) = stored[1].history
                        /\ session.instructions = stored[1].instructions
                        /\ session.createdAt = stored[1].createdAt
                  /\ (~Held(sessions, sid) /\ stored = <<>>) =>
                        /\ target # sid /\ trace'[n].source = "created"
                        /\ target \in FreshIds
                        /\ BeforeTurn(session.history, n) = <<>>
                        /\ session.instructions = globalInstructions
                        /\ session.createdAt = now
                        /\ RedisGet(redis', target, now) # <<>>]_vars

C22_Witness ==
    \E n \in Calls, m \in Calls :
        /\ trace[n].kind # "peer" /\ trace[n].source = "durable"
        /\ trace[m].kind # "peer" /\ trace[m].source = "local"
        /\ sessions[trace[n].session].history # <<>>

\* clearSession(sid) returns in this step
ClearStep(sid) ==
    lastOp'.seq = lastOp.seq + 1 /\ lastOp'.op = "clear" /\ lastOp'.sid = sid

\* C23: clearSession on an existing session empties its history in the
\* local map and in the shared store, wherever the session is, keeps its
\* instructions and createdAt, and changes no other session
C23_ClearEmptiesHistory ==
    [][\A sid \in SessionIds :
          (ClearStep(sid) /\ lastOp'.existed) =>
              /\ Held(sessions', sid) =>
                    /\ sessions'[sid].history = <<>>
                    /\ sessions'[sid].instructions = sessions[sid].instructions
                    /\ sessions'[sid].createdAt = sessions[sid].createdAt
              /\ RedisGet(redis', sid, now) # <<>> =>
                    /\ RedisGet(redis', sid, now)[1].history = <<>>
                    /\ RedisGet(redis, sid, now) # <<>>
                    /\ RedisGet(redis', sid, now)[1].instructions
                           = RedisGet(redis, sid, now)[1].instructions
                    /\ RedisGet(redis', sid, now)[1].createdAt
                           = RedisGet(redis, sid, now)[1].createdAt
              /\ \A other \in SessionIds \ {sid} :
                    sessions'[other] = sessions[other] /\ redis'[other] = redis[other]]_vars

\* the last write of session sid to the shared store (create, persist or
\* clear) is more than an hour ago
Expired(sid) ==
    /\ redis[sid] # <<>>
    /\ now - (redis[sid][1].expires - SESSION_TTL * 1000) > SESSION_MAX_AGE

\* getSessionInfo(sid) returns in this step
InfoStep(sid) ==
    lastOp'.seq = lastOp.seq + 1 /\ lastOp'.op = "info" /\ lastOp'.sid = sid

\* C24: a session last written more than an hour ago is no longer
\* returned: getSessionInfo returns null and getOrCreateSession makes a new
\* session
C24_SessionsExpire ==
    [][\A sid \in SessionIds :
          Expired(sid) =>
              /\ InfoStep(sid) => lastOp'.result = <<>>
              /\ \A n \in 1..MaxLookups :
                    (Begins(n) /\ trace'[n].kind # "peer" /\ trace'[n].given = sid)
                        => trace'[n].session # sid]_vars
(***************************************************************************)
(* Access tokens: properties                                               *)
(***************************************************************************)
\* C28: a request to a protected route with an unexpired token that a
\* logout has blacklisted is rejected; one with a valid token no logout
\* was made with is accepted
C28_BlacklistedTokenRejected ==
    lastRequest.seq > 0 =>
        /\ (lastRequest.valid /\ lastRequest.revoked) => lastRequest.outcome = "rejected"
        /\ (lastRequest.valid /\ ~lastRequest.loggedOut) => lastRequest.outcome = "accepted"
\* a multiQueryRetrieval call has returned
Searched == retrieval.pc = "idle" /\ retrieval.query # <<>>
SearchedStrings == {retrieval.searches[i].query : i \in 1..Len(retrieval.searches)}

\* C32: whenever a multiQueryRetrieval(query) call has returned, the strings
\* it embedded and searched are the original query string plus at most 3
\* variations, each searched with topK = ceil(globalTopK / number of strings)
C32_SearchesOriginalQuery ==
    Searched =>
        /\ retrieval.query \in SearchedStrings
        /\ Len(retrieval.searches) <= 1 + 3
        /\ \A i \in 1..Len(retrieval.searches) :
              retrieval.searches[i].topK = Ceil(DEFAULT_TOP_K, Len(retrieval.searches))

\* a turn has handed its messages to the completion provider
Composed == compose.sent # <<>>

\* C33: the message list given to the completion provider for a turn is one
\* system message (instructions + context), then the last 6 history entries
\* that precede the current message, in order, then the latest user message
\* as the final element
C33_ProviderMessages ==
    Composed =>
        compose.sent =
            <<HistoryEntry("system", compose.instructions \o compose.context)>>
                \o SliceLast(compose.before, RECENT_HISTORY)
                \o <<HistoryEntry("user", compose.message)>>

\* the step writes the session sid to the shared store
Wrote(sid) == redis'[sid] # redis[sid] /\ redis'[sid] # <<>>
\* the local map, after the step, of the instance that takes it
WriterMap == IF peer' # peer THEN peer' ELSE sessions'
\* the step is the begin of a chatStream call that creates the session sid:
\* createSession has returned and the user message is pushed after it
StreamCreated(sid) ==
    /\ Len(trace') = Len(trace) + 1
    /\ LET call == trace'[Len(trace')]
       IN  call.kind = "stream" /\ call.session = sid /\ call.created /\ ~call.cached

SweepStep == pendingCleanups' < pendingCleanups

\* C36: the sweep of the local map removes exactly the sessions whose
\* lastActivity is more than 1 hour old: none of them is left in the map, a
\* session active within the last hour stays with its content unchanged,
\* and the shared store is not written
C36_SweepExact ==
    [][SweepStep =>
          /\ \A sid \in SessionIds :
                sessions'[sid].held <=>
                    (sessions[sid].held /\ ~(now - sessions[sid].lastActivity > 3600000))
          /\ \A sid \in SessionIds : sessions'[sid].held => sessions'[sid] = sessions[sid]
          /\ redis' = redis]_vars

\* a sweep has run: a session last active more than an hour ago has left
\* the map, one last active exactly an hour ago is in it
C36_Witness ==
    /\ pendingCleanups = 0
    /\ \E gone, kept \in SessionIds :
          /\ sessions[gone].created /\ ~sessions[gone].held
          /\ now - sessions[gone].lastActivity > 3600000
          /\ sessions[kept].held
          /\ now - sessions[kept].lastActivity = 3600000
          /\ \E n \in 1..Len(trace) : trace[n].result = "returned"

\* the step is a call of service that fails fast on the open circuit
RejectStep(service) == lastEvent'[service] = "reject" /\ lastEvent[service] # "reject"

\* C37: a call rejected because the circuit is open changes neither the
\* failure count nor lastFailure of its provider nor anything of the other
\* provider's circuit; lastFailure changes only when a provider call fails,
\* and no call is rejected more than RECOVERY_TIMEOUT after lastFailure
C37_RejectsLeaveCircuit ==
    [][\A s \in Services :
          /\ RejectStep(s) =>
                /\ circuitBreakers' = circuitBreakers
                /\ now - circuitBreakers[s].lastFailure <= 30000
          /\ circuitBreakers'[s].lastFailure # circuitBreakers[s].lastFailure =>
                /\ lastEvent'[s] \in {"failure", "probe_failure"}
                /\ circuitBreakers'[s].lastFailure = now]_vars

\* a call has just been rejected on the open circuit, some time after the
\* failure that opened it, while the other provider has failures counted
C37_Witness ==
    \E s, other \in Services :
        /\ s # other
        /\ lastEvent[s] = "reject"
        /\ circuitBreakers[s].isOpen /\ circuitBreakers[s].failures = 5
        /\ now > circuitBreakers[s].lastFailure
        /\ circuitBreakers[other].failures > 0

\* the step in which the consumer abandons call n
AbandonStep(n) == trace'[n].result = "abandoned" /\ trace[n].result # "abandoned"
\* the entries call n pushed
PushedBy(history, n) == {i \in 1..Len(history) : history[i].turn = n}

\* C38: when the consumer abandons a chatStream turn after a chunk, the turn
\* has left and leaves no trace beyond its user entry: no assistant entry of
\* the turn is in the session history, the response cache, the shared store
\* and the chat history table are not written, and the shared store holds no
\* entry of the turn
C38_AbandonLeavesNoTrace ==
    [][\A n \in 1..Len(trace) :
          AbandonStep(n) =>
              LET sid == trace[n].session
              IN  /\ \A i \in PushedBy(sessions'[sid].history, n) :
                        sessions'[sid].history[i].role = "user"
                  /\ responseCache' = responseCache
                  /\ redis' = redis
                  /\ redis[sid] # <<>> => PushedBy(redis[sid][1].value.history, n) = {}
                  /\ chatHistory' = chatHistory]_vars

\* C39: once deleteSession(id) has returned, the session is in neither the
\* local map nor the shared store (getSessionInfo(id) returns null), also
\* when a chat or chatStream turn on it was in flight at the delete and
\* ends afterwards; createSession never makes a session under an id in use
C39_DeletedStaysAbsent ==
    \A sid \in SessionIds :
        (lastOp.op = "delete" /\ lastOp.sid = sid) =>
            /\ ~Held(sessions, sid)
            /\ RedisGet(redis, sid, now) = <<>>

\* no sendMessage call on the conversation is in progress
AllSent == \A c \in SendCalls : conversation.calls[c].pc = "idle"

\* C40: once all sendMessage calls on a conversation have completed,
\* messageCount is the number of chat history rows stored for the
\* conversation, also when calls overlap or a streamed turn fails after its
\* user row was saved
C40_MessageCountIsRows ==
    AllSent => conversation.messageCount = Len(conversation.rows)

====
